---- MODULE Spec2Model ----
(***************************************************************************)
(* A model of the material graph compiler of bl_datasmith                  *)
(* (src/addons/bl_datasmith/export_material.py): the export run            *)
(* collect_all_materials, the per material compile pbr_nodetree_material,  *)
(* the socket resolver get_expression / get_expression_inner, the group    *)
(* inliner exp_group / exp_group_input, the shader aggregator (ADD_SHADER, *)
(* MIX_SHADER) and the curve baker add_material_curve.                     *)
(*                                                                         *)
(* The Python module keeps its working state in module globals; the model  *)
(* threads them through the resolver as one record st whose fields carry   *)
(* the globals' names.  A Python exception is st.err # "": once it is set  *)
(* every later step of the compile leaves st alone, which is what          *)
(* unwinding through code without try/finally does to the globals.         *)
(***************************************************************************)
EXTENDS Integers, Sequences, FiniteSets, TLC

(***************************************************************************)
(* Numbers.  A Python float is an integer count of 1e-7; "%f" and "%.6f"   *)
(* (six decimals, round half to even) give a count of 1e-6.                *)
(***************************************************************************)
F(milli) == milli * 10000

Fmt6(v) ==
  IF v % 10 > 5 \/ (v % 10 = 5 /\ (v \div 10) % 2 = 1) THEN (v \div 10) + 1
  ELSE v \div 10

Fmt6Seq(vs) == [i \in 1..Len(vs) |-> Fmt6(vs[i])]

(***************************************************************************)
(* The node graph model read by the compiler (bpy.types.Node, NodeSocket,  *)
(* NodeLink, Material): read-only input.  A socket is named by the pair    *)
(* <<node id, socket name>>; links holds the from_socket of an input's     *)
(* link (empty: no link).  default_type is type(field.default_value).      *)
(***************************************************************************)
NoLink == <<>>
Link(node, output) == << <<node, output>> >>

In(name, type, links, dv, dt) ==
  [name |-> name, identifier |-> name, type |-> type, links |-> links,
   default_value |-> dv, default_type |-> dt]

InValue(name, links, milli) == In(name, "VALUE", links, <<F(milli)>>, "float")
InColor(name, links, r, g, b, a) ==
  In(name, "RGBA", links, <<F(r), F(g), F(b), F(a)>>, "bpy_prop_array")
InArray(name, links) ==
  In(name, "VECTOR", links, <<F(0), F(0), F(0)>>, "bpy_prop_array")
InVector(name, links, x, y, z) ==
  In(name, "VECTOR", links, <<F(x), F(y), F(z)>>, "Vector")
InShader(name, links) == In(name, "SHADER", links, <<>>, "none")

Out(name, type) ==
  [name |-> name, identifier |-> name, type |-> type, enabled |-> TRUE,
   default_value |-> <<>>]
OutDefault(name, type, dv) == [Out(name, type) EXCEPT !.default_value = dv]
OutDisabled(name, type) == [Out(name, type) EXCEPT !.enabled = FALSE]

IdentityMapping ==
  [mapping |-> <<"X", "Y", "Z">>, translation |-> <<F(0), F(0), F(0)>>,
   rotation |-> <<F(0), F(0), F(0)>>, scale |-> <<F(1000), F(1000), F(1000)>>,
   vector_type |-> "POINT"]

Nd(id, tree, type, inputs, outputs) ==
  [id |-> id, tree |-> tree, type |-> type, inputs |-> inputs,
   outputs |-> outputs, label |-> "", node_tree |-> "", image |-> <<>>,
   projection |-> "FLAT", texture_mapping |-> IdentityMapping,
   is_active_output |-> FALSE, invert |-> FALSE, vector_type |-> "POINT"]

OutputMaterial(id, tree, surface, volume) ==
  Nd(id, tree, "OUTPUT_MATERIAL",
     <<InShader("Surface", surface), InShader("Volume", volume)>>, <<>>)

Principled(id, tree, base, metallic, alpha, emission, normal) ==
  Nd(id, tree, "BSDF_PRINCIPLED",
     <<InColor("Base Color", base, 800, 800, 800, 1000),
       InValue("Metallic", metallic, 0),
       InValue("Roughness", NoLink, 500),
       InValue("Specular IOR Level", NoLink, 500),
       InValue("Alpha", alpha, 1000),
       InColor("Emission Color", emission, 1000, 1000, 1000, 1000),
       InValue("Emission Strength", NoLink, 0),
       InValue("Coat Weight", NoLink, 0),
       InValue("Coat Roughness", NoLink, 30),
       InArray("Normal", normal)>>,
     <<Out("BSDF", "SHADER")>>)

Diffuse(id, tree, color, normal) ==
  Nd(id, tree, "BSDF_DIFFUSE",
     <<InColor("Color", color, 800, 800, 800, 1000),
       InValue("Roughness", NoLink, 0),
       InArray("Normal", normal)>>,
     <<Out("BSDF", "SHADER")>>)

Glossy(id, tree, color, roughness) ==
  Nd(id, tree, "BSDF_GLOSSY",
     <<InColor("Color", color, 800, 800, 800, 1000),
       InValue("Roughness", roughness, 500),
       InArray("Normal", NoLink)>>,
     <<Out("BSDF", "SHADER")>>)

Emission(id, tree, color, strength) ==
  Nd(id, tree, "EMISSION",
     <<InColor("Color", color, 1000, 1000, 1000, 1000),
       InValue("Strength", strength, 1000)>>,
     <<Out("Emission", "SHADER")>>)

Transparent(id, tree) ==
  Nd(id, tree, "BSDF_TRANSPARENT",
     <<InColor("Color", NoLink, 1000, 1000, 1000, 1000)>>,
     <<Out("BSDF", "SHADER")>>)

AddShader(id, tree, a, b) ==
  Nd(id, tree, "ADD_SHADER",
     <<InShader("Shader", a), InShader("Shader_001", b)>>,
     <<Out("Shader", "SHADER")>>)

MixShader(id, tree, fac, a, b) ==
  Nd(id, tree, "MIX_SHADER",
     <<InValue("Fac", fac, 500), InShader("Shader", a),
       InShader("Shader_001", b)>>,
     <<Out("Shader", "SHADER")>>)

Rgb(id, tree, r, g, b) ==
  Nd(id, tree, "RGB", <<>>,
     <<OutDefault("Color", "RGBA", <<F(r), F(g), F(b), F(1000)>>)>>)

Value(id, tree, milli) ==
  Nd(id, tree, "VALUE", <<>>, <<OutDefault("Value", "VALUE", <<F(milli)>>)>>)

ColorRamp(id, tree, fac) ==
  Nd(id, tree, "VALTORGB", <<InValue("Fac", fac, 500)>>,
     <<Out("Color", "RGBA"), Out("Alpha", "VALUE")>>)

CurveRgb(id, tree, color) ==
  Nd(id, tree, "CURVE_RGB",
     <<InValue("Fac", NoLink, 1000),
       InColor("Color", color, 0, 0, 0, 1000)>>,
     <<Out("Color", "RGBA")>>)

TexImage(id, tree, image, vector) ==
  [Nd(id, tree, "TEX_IMAGE", <<InArray("Vector", vector)>>,
      <<Out("Color", "RGBA"), Out("Alpha", "VALUE")>>)
   EXCEPT !.image = image]

NormalMap(id, tree, color) ==
  Nd(id, tree, "NORMAL_MAP",
     <<InValue("Strength", NoLink, 1000),
       InColor("Color", color, 500, 500, 1000, 1000)>>,
     <<Out("Normal", "VECTOR")>>)

Bump(id, tree, invert, strength, height, normal) ==
  [Nd(id, tree, "BUMP",
      <<InValue("Strength", strength, 1000), InValue("Distance", NoLink, 1000),
        InValue("Height", height, 1000), InArray("Normal", normal)>>,
      <<Out("Normal", "VECTOR")>>)
   EXCEPT !.invert = invert]

Mapping(id, tree, vector_type, vector) ==
  [Nd(id, tree, "MAPPING",
      <<InArray("Vector", vector),
        InVector("Location", NoLink, 0, 0, 0),
        In("Rotation", "VECTOR", NoLink, <<F(0), F(0), F(0)>>, "Euler"),
        InVector("Scale", NoLink, 1000, 1000, 1000)>>,
      <<Out("Vector", "VECTOR")>>)
   EXCEPT !.vector_type = vector_type]

\* a node of a type that no translator is registered for
Script(id, tree) ==
  Nd(id, tree, "SCRIPT", <<>>, <<Out("Color", "RGBA"), Out("Value", "VALUE")>>)

\* fac_name: the name of the second output ("Fac"; "Factor" from Blender 5.0)
TexChecker(id, tree, vector, fac_name) ==
  Nd(id, tree, "TEX_CHECKER",
     <<InArray("Vector", vector),
       InColor("Color1", NoLink, 800, 800, 800, 1000),
       InColor("Color2", NoLink, 200, 200, 200, 1000),
       InValue("Scale", NoLink, 5000)>>,
     <<Out("Color", "RGBA"), Out(fac_name, "VALUE")>>)

SepXyz(id, tree, vector) ==
  Nd(id, tree, "SEPXYZ", <<InArray("Vector", vector)>>,
     <<Out("X", "VALUE"), Out("Y", "VALUE"), Out("Z", "VALUE")>>)

AmbientOcclusion(id, tree, color) ==
  Nd(id, tree, "AMBIENT_OCCLUSION",
     <<InColor("Color", color, 1000, 1000, 1000, 1000),
       InValue("Distance", NoLink, 1000), InArray("Normal", NoLink)>>,
     <<Out("Color", "RGBA"), Out("AO", "VALUE")>>)

Reroute(id, tree, type, links) ==
  Nd(id, tree, "REROUTE",
     <<In("Input", type, links, <<F(0), F(0), F(0)>>, "bpy_prop_array")>>,
     <<Out("Output", type)>>)

Group(id, tree, node_tree, inputs, outputs) ==
  [Nd(id, tree, "GROUP", inputs, outputs) EXCEPT !.node_tree = node_tree]

GroupInput(id, tree, outputs) == Nd(id, tree, "GROUP_INPUT", <<>>, outputs)

GroupOutput(id, tree, inputs) ==
  [Nd(id, tree, "GROUP_OUTPUT", inputs, <<>>) EXCEPT !.is_active_output = TRUE]

(***************************************************************************)
(* The graphs the runs compile: a library of node trees and materials.     *)
(* Group interface sockets carry identifiers of their own (Socket_n), as   *)
(* in Blender, where the name of a socket is only its label.               *)
(***************************************************************************)
\* image.name of the image datablocks
WoodImage == <<"w", " ", "d", ".", "p", "n", "g">>

\* a second image datablock, whose name sanitizes to that of the first
WoodCopyImage == <<"w", "_", "d", "_", "p", "n", "g">>

WithId(socket, identifier) == [socket EXCEPT !.identifier = identifier]

PassInputs(color) ==
  <<WithId(InValue("Level", NoLink, 500), "Socket_1"),
    WithId(InColor("Color", color, 0, 0, 0, 1000), "Socket_2")>>
PassOutputs == <<WithId(Out("Color", "RGBA"), "Socket_0")>>

NodeSeq ==
  << \* plain: a Principled BSDF with every input at its default
     OutputMaterial("plain.out", "plain", Link("plain.bsdf", "BSDF"), NoLink),
     Principled("plain.bsdf", "plain", NoLink, NoLink, NoLink, NoLink, NoLink),
     \* shared: one Color output feeding two Color inputs
     OutputMaterial("shared.out", "shared", Link("shared.bsdf", "BSDF"), NoLink),
     Principled("shared.bsdf", "shared", Link("shared.rgb", "Color"), NoLink,
                NoLink, Link("shared.rgb", "Color"), NoLink),
     Rgb("shared.rgb", "shared", 200, 400, 600),
     \* sharedbw: one Color output feeding a Scalar input, then a Color input
     OutputMaterial("sharedbw.out", "sharedbw", Link("sharedbw.bsdf", "BSDF"), NoLink),
     Principled("sharedbw.bsdf", "sharedbw", NoLink, Link("sharedbw.rgb", "Color"),
                NoLink, Link("sharedbw.rgb", "Color"), NoLink),
     Rgb("sharedbw.rgb", "sharedbw", 200, 400, 600),
     \* disabled: two inputs linked to a disabled output socket
     OutputMaterial("disabled.out", "disabled", Link("disabled.glossy", "BSDF"), NoLink),
     Glossy("disabled.glossy", "disabled", Link("disabled.val", "Value"),
            Link("disabled.val", "Value")),
     [Value("disabled.val", "disabled", 250)
        EXCEPT !.outputs = <<OutDisabled("Value", "VALUE")>>],
     \* ramp2: both outputs of one color ramp are used
     OutputMaterial("ramp2.out", "ramp2", Link("ramp2.glossy", "BSDF"), NoLink),
     Glossy("ramp2.glossy", "ramp2", Link("ramp2.ramp", "Color"),
            Link("ramp2.ramp", "Alpha")),
     ColorRamp("ramp2.ramp", "ramp2", NoLink),
     \* curve: an RGB curve and a color ramp, each with one consumer
     OutputMaterial("curve.out", "curve", Link("curve.emit", "Emission"), NoLink),
     Emission("curve.emit", "curve", Link("curve.crv", "Color"),
              Link("curve.ramp", "Alpha")),
     CurveRgb("curve.crv", "curve", NoLink),
     ColorRamp("curve.ramp", "curve", NoLink),
     \* direct / grouped: the same graph without and with a pass-through group
     OutputMaterial("direct.out", "direct", Link("direct.add", "Shader"), NoLink),
     AddShader("direct.add", "direct", Link("direct.glossy", "BSDF"),
               Link("direct.emit", "Emission")),
     Glossy("direct.glossy", "direct", Link("direct.rgb", "Color"), NoLink),
     Emission("direct.emit", "direct", Link("direct.rgb", "Color"), NoLink),
     Rgb("direct.rgb", "direct", 100, 200, 300),
     OutputMaterial("grouped.out", "grouped", Link("grouped.add", "Shader"), NoLink),
     AddShader("grouped.add", "grouped", Link("grouped.glossy", "BSDF"),
               Link("grouped.emit", "Emission")),
     Glossy("grouped.glossy", "grouped", Link("grouped.g", "Color"), NoLink),
     Emission("grouped.emit", "grouped", Link("grouped.rgb", "Color"), NoLink),
     Rgb("grouped.rgb", "grouped", 100, 200, 300),
     Group("grouped.g", "grouped", "t_pass",
           PassInputs(Link("grouped.rgb", "Color")), PassOutputs),
     \* t_pass: the group's output wired straight to its Color input
     GroupInput("t_pass.in", "t_pass",
                <<WithId(Out("Level", "VALUE"), "Socket_1"),
                  WithId(Out("Color", "RGBA"), "Socket_2")>>),
     GroupOutput("t_pass.out", "t_pass",
                 <<WithId(InColor("Color", Link("t_pass.in", "Color"), 0, 0, 0, 1000),
                          "Socket_0")>>),
     \* textexa / textexb: a group whose unlinked UV input feeds an image
     \* texture and one more inner input, in the two resolve orders
     OutputMaterial("textexa.out", "textexa", Link("textexa.g", "Shader"), NoLink),
     Group("textexa.g", "textexa", "t_texa",
           <<WithId(InArray("UV", NoLink), "Socket_1")>>,
           <<WithId(Out("Shader", "SHADER"), "Socket_0")>>),
     GroupInput("t_texa.in", "t_texa", <<WithId(Out("UV", "VECTOR"), "Socket_1")>>),
     Glossy("t_texa.glossy", "t_texa", Link("t_texa.in", "UV"),
            Link("t_texa.tex", "Alpha")),
     TexImage("t_texa.tex", "t_texa", WoodImage, Link("t_texa.in", "UV")),
     GroupOutput("t_texa.out", "t_texa",
                 <<WithId(InShader("Shader", Link("t_texa.glossy", "BSDF")),
                          "Socket_0")>>),
     OutputMaterial("textexb.out", "textexb", Link("textexb.g", "Shader"), NoLink),
     Group("textexb.g", "textexb", "t_texb",
           <<WithId(InArray("UV", NoLink), "Socket_1")>>,
           <<WithId(Out("Shader", "SHADER"), "Socket_0")>>),
     GroupInput("t_texb.in", "t_texb", <<WithId(Out("UV", "VECTOR"), "Socket_1")>>),
     Glossy("t_texb.glossy", "t_texb", Link("t_texb.tex", "Color"),
            Link("t_texb.in", "UV")),
     TexImage("t_texb.tex", "t_texb", WoodImage, Link("t_texb.in", "UV")),
     GroupOutput("t_texb.out", "t_texb",
                 <<WithId(InShader("Shader", Link("t_texb.glossy", "BSDF")),
                          "Socket_0")>>),
     \* nested: two instances of t_pass, one of them inside the group t_outer
     OutputMaterial("nested.out", "nested", Link("nested.add", "Shader"), NoLink),
     AddShader("nested.add", "nested", Link("nested.glossy", "BSDF"),
               Link("nested.emit", "Emission")),
     Glossy("nested.glossy", "nested", Link("nested.ga", "Color"), NoLink),
     Emission("nested.emit", "nested", Link("nested.gb", "Color"), NoLink),
     Rgb("nested.rgb1", "nested", 100, 0, 0),
     Rgb("nested.rgb2", "nested", 0, 0, 100),
     Group("nested.ga", "nested", "t_pass",
           PassInputs(Link("nested.rgb1", "Color")), PassOutputs),
     Group("nested.gb", "nested", "t_outer",
           <<WithId(InColor("Color", Link("nested.rgb2", "Color"), 0, 0, 0, 1000),
                    "Socket_1")>>,
           PassOutputs),
     GroupInput("t_outer.in", "t_outer", <<WithId(Out("Color", "RGBA"), "Socket_1")>>),
     Group("t_outer.g", "t_outer", "t_pass",
           PassInputs(Link("t_outer.in", "Color")), PassOutputs),
     GroupOutput("t_outer.out", "t_outer",
                 <<WithId(InColor("Color", Link("t_outer.g", "Color"), 0, 0, 0, 1000),
                          "Socket_0")>>),
     \* twoout: a group with two outputs, both consumed, both wired inside
     \* the group to the one inner RGB node; the group's input has no link
     OutputMaterial("twoout.out", "twoout", Link("twoout.bsdf", "BSDF"), NoLink),
     Principled("twoout.bsdf", "twoout", Link("twoout.g", "Color"), NoLink, NoLink,
                Link("twoout.g", "Glow"), NoLink),
     Group("twoout.g", "twoout", "t_two",
           <<WithId(InValue("Level", NoLink, 500), "Socket_2")>>,
           <<WithId(Out("Color", "RGBA"), "Socket_0"),
             WithId(Out("Glow", "RGBA"), "Socket_1")>>),
     GroupInput("t_two.in", "t_two", <<WithId(Out("Level", "VALUE"), "Socket_2")>>),
     Rgb("t_two.rgb", "t_two", 100, 200, 300),
     GroupOutput("t_two.out", "t_two",
                 <<WithId(InColor("Color", Link("t_two.rgb", "Color"), 0, 0, 0, 1000),
                          "Socket_0"),
                   WithId(InColor("Glow", Link("t_two.rgb", "Color"), 0, 0, 0, 1000),
                          "Socket_1")>>),
     \* addfail: a Shader-Add operand that resolves to nothing
     OutputMaterial("addfail.out", "addfail", Link("addfail.add", "Shader"), NoLink),
     AddShader("addfail.add", "addfail", Link("addfail.rr", "Output"),
               Link("addfail.diffuse", "BSDF")),
     Reroute("addfail.rr", "addfail", "VECTOR", NoLink),
     Diffuse("addfail.diffuse", "addfail", NoLink, NoLink),
     \* normalfail: under a Normal Map, a group whose inner group has no
     \* Group Output node
     OutputMaterial("normalfail.out", "normalfail", Link("normalfail.diffuse", "BSDF"),
                    NoLink),
     Diffuse("normalfail.diffuse", "normalfail", NoLink,
             Link("normalfail.nmap", "Normal")),
     NormalMap("normalfail.nmap", "normalfail", Link("normalfail.g", "Color")),
     Group("normalfail.g", "normalfail", "t_outerfail", <<>>, PassOutputs),
     Group("t_outerfail.g", "t_outerfail", "t_noout", <<>>, PassOutputs),
     GroupOutput("t_outerfail.out", "t_outerfail",
                 <<WithId(InColor("Color", Link("t_outerfail.g", "Color"), 0, 0, 0, 1000),
                          "Socket_0")>>),
     Rgb("t_noout.rgb", "t_noout", 500, 500, 500),
     \* volume: only the Volume input of the output node is linked
     OutputMaterial("volume.out", "volume", NoLink, Link("volume.emit", "Emission")),
     Emission("volume.emit", "volume", NoLink, NoLink),
     \* unhandled: both outputs of a node no translator is registered for
     OutputMaterial("unhandled.out", "unhandled", Link("unhandled.glossy", "BSDF"),
                    NoLink),
     Glossy("unhandled.glossy", "unhandled", Link("unhandled.script", "Color"),
            Link("unhandled.script", "Value")),
     Script("unhandled.script", "unhandled"),
     \* maploose: an image texture behind a Mapping node with nothing on its
     \* Vector input
     OutputMaterial("maploose.out", "maploose", Link("maploose.glossy", "BSDF"), NoLink),
     Glossy("maploose.glossy", "maploose", Link("maploose.tex", "Color"), NoLink),
     TexImage("maploose.tex", "maploose", WoodImage, Link("maploose.map", "Vector")),
     Mapping("maploose.map", "maploose", "POINT", NoLink),
     \* dotvec: a Vector output feeding a Scalar input
     OutputMaterial("dotvec.out", "dotvec", Link("dotvec.glossy", "BSDF"), NoLink),
     Glossy("dotvec.glossy", "dotvec", NoLink, Link("dotvec.nmap", "Normal")),
     NormalMap("dotvec.nmap", "dotvec", NoLink),
     \* glow: a Principled BSDF whose Emission Strength is 1
     OutputMaterial("glow.out", "glow", Link("glow.bsdf", "BSDF"), NoLink),
     [Principled("glow.bsdf", "glow", NoLink, NoLink, NoLink, NoLink, NoLink)
        EXCEPT !.inputs[7] = InValue("Emission Strength", NoLink, 1000)],
     \* addopacity: Add Shader of a Transparent BSDF and a Diffuse BSDF that
     \* has a normal map
     OutputMaterial("addopacity.out", "addopacity", Link("addopacity.add", "Shader"),
                    NoLink),
     AddShader("addopacity.add", "addopacity", Link("addopacity.transp", "BSDF"),
               Link("addopacity.diffuse", "BSDF")),
     Transparent("addopacity.transp", "addopacity"),
     Diffuse("addopacity.diffuse", "addopacity", NoLink,
             Link("addopacity.nmap", "Normal")),
     [NormalMap("addopacity.nmap", "addopacity", NoLink)
        EXCEPT !.inputs[2] = InColor("Color", NoLink, 200, 200, 200, 1000)],
     \* mixopacity / mixopacity2: Mix Shader with Opacity on one side only
     OutputMaterial("mixopacity.out", "mixopacity", Link("mixopacity.mix", "Shader"),
                    NoLink),
     MixShader("mixopacity.mix", "mixopacity", NoLink, Link("mixopacity.transp", "BSDF"),
               Link("mixopacity.glossy", "BSDF")),
     Transparent("mixopacity.transp", "mixopacity"),
     Glossy("mixopacity.glossy", "mixopacity", NoLink, NoLink),
     OutputMaterial("mixopacity2.out", "mixopacity2", Link("mixopacity2.mix", "Shader"),
                    NoLink),
     MixShader("mixopacity2.mix", "mixopacity2", Link("mixopacity2.val", "Value"),
               Link("mixopacity2.glossy", "BSDF"), Link("mixopacity2.transp", "BSDF")),
     Value("mixopacity2.val", "mixopacity2", 250),
     Transparent("mixopacity2.transp", "mixopacity2"),
     Glossy("mixopacity2.glossy", "mixopacity2", NoLink, NoLink),
     \* bumpcurve: an unlinked Color input resolved under a Bump node
     OutputMaterial("bumpcurve.out", "bumpcurve", Link("bumpcurve.diffuse", "BSDF"),
                    NoLink),
     Diffuse("bumpcurve.diffuse", "bumpcurve", NoLink, Link("bumpcurve.bump", "Normal")),
     Bump("bumpcurve.bump", "bumpcurve", TRUE, NoLink, Link("bumpcurve.crv", "Color"),
          NoLink),
     [CurveRgb("bumpcurve.crv", "bumpcurve", NoLink)
        EXCEPT !.inputs[2] = InColor("Color", NoLink, 200, 200, 200, 1000)],
     \* bumptex: an image texture that only a Bump node uses
     OutputMaterial("bumptex.out", "bumptex", Link("bumptex.bsdf", "BSDF"), NoLink),
     Principled("bumptex.bsdf", "bumptex", NoLink, NoLink, NoLink, NoLink,
                Link("bumptex.bump", "Normal")),
     Bump("bumptex.bump", "bumptex", FALSE, Link("bumptex.tex", "Alpha"),
          Link("bumptex.tex", "Color"), NoLink),
     TexImage("bumptex.tex", "bumptex", WoodImage, NoLink),
     \* bumpshared: an image texture that feeds the Base Color and a Bump node
     OutputMaterial("bumpshared.out", "bumpshared", Link("bumpshared.bsdf", "BSDF"),
                    NoLink),
     Principled("bumpshared.bsdf", "bumpshared", Link("bumpshared.tex", "Color"), NoLink,
                NoLink, NoLink, Link("bumpshared.bump", "Normal")),
     Bump("bumpshared.bump", "bumpshared", FALSE, NoLink, Link("bumpshared.tex", "Color"),
          NoLink),
     TexImage("bumpshared.tex", "bumpshared", WoodImage, NoLink),
     \* checker: both outputs of a checker texture, the second under its
     \* Blender 5.0 name
     OutputMaterial("checker.out", "checker", Link("checker.glossy", "BSDF"), NoLink),
     Glossy("checker.glossy", "checker", Link("checker.tex", "Color"),
            Link("checker.tex", "Factor")),
     TexChecker("checker.tex", "checker", NoLink, "Factor"),
     \* sepxyz: the three outputs of a Separate XYZ node, Z first
     OutputMaterial("sepxyz.out", "sepxyz", Link("sepxyz.bsdf", "BSDF"), NoLink),
     Principled("sepxyz.bsdf", "sepxyz", NoLink, Link("sepxyz.sep", "Z"),
                Link("sepxyz.sep", "X"), NoLink, NoLink),
     SepXyz("sepxyz.sep", "sepxyz", Link("sepxyz.rgb", "Color")),
     Rgb("sepxyz.rgb", "sepxyz", 100, 500, 900),
     \* occluded: two Add Shaders, two Transparent BSDFs and two Ambient
     \* Occlusion nodes in one graph
     OutputMaterial("occluded.out", "occluded", Link("occluded.add", "Shader"), NoLink),
     AddShader("occluded.add", "occluded", Link("occluded.transp", "BSDF"),
               Link("occluded.add2", "Shader")),
     AddShader("occluded.add2", "occluded", Link("occluded.transp2", "BSDF"),
               Link("occluded.bsdf", "BSDF")),
     Transparent("occluded.transp", "occluded"),
     Transparent("occluded.transp2", "occluded"),
     Principled("occluded.bsdf", "occluded", Link("occluded.ao", "Color"), NoLink,
                NoLink, Link("occluded.ao2", "Color"), NoLink),
     AmbientOcclusion("occluded.ao", "occluded", NoLink),
     AmbientOcclusion("occluded.ao2", "occluded", NoLink),
     \* stubmix: a Mix Shader whose first Shader input has no link and whose
     \* Fac default is 0.1234567
     OutputMaterial("stubmix.out", "stubmix", Link("stubmix.mix", "Shader"), NoLink),
     [MixShader("stubmix.mix", "stubmix", NoLink, NoLink, Link("stubmix.glossy", "BSDF"))
        EXCEPT !.inputs[1] = In("Fac", "VALUE", NoLink, <<1234567>>, "float")],
     Glossy("stubmix.glossy", "stubmix", NoLink, NoLink),
     \* mixshared: a Diffuse BSDF consumed by a Mix Shader and, after it, by
     \* the Add Shader that consumes the Mix Shader
     OutputMaterial("mixshared.out", "mixshared", Link("mixshared.add", "Shader"), NoLink),
     AddShader("mixshared.add", "mixshared", Link("mixshared.mix", "Shader"),
               Link("mixshared.diffuse", "BSDF")),
     MixShader("mixshared.mix", "mixshared", NoLink, Link("mixshared.diffuse", "BSDF"),
               Link("mixshared.glossy", "BSDF")),
     Diffuse("mixshared.diffuse", "mixshared", NoLink, NoLink),
     Glossy("mixshared.glossy", "mixshared", NoLink, NoLink),
     \* bumptwo: a Bump whose Strength and Height come from two image textures
     OutputMaterial("bumptwo.out", "bumptwo", Link("bumptwo.bsdf", "BSDF"), NoLink),
     Principled("bumptwo.bsdf", "bumptwo", NoLink, NoLink, NoLink, NoLink,
                Link("bumptwo.bump", "Normal")),
     Bump("bumptwo.bump", "bumptwo", FALSE, Link("bumptwo.tex", "Alpha"),
          Link("bumptwo.tex2", "Color"), NoLink),
     TexImage("bumptwo.tex", "bumptwo", WoodImage, NoLink),
     TexImage("bumptwo.tex2", "bumptwo", WoodImage, NoLink),
     \* twotex: two image textures whose images differ and whose image names
     \* sanitize to one name
     OutputMaterial("twotex.out", "twotex", Link("twotex.glossy", "BSDF"), NoLink),
     Glossy("twotex.glossy", "twotex", Link("twotex.copy", "Color"),
            Link("twotex.tex", "Alpha")),
     TexImage("twotex.copy", "twotex", WoodCopyImage, NoLink),
     TexImage("twotex.tex", "twotex", WoodImage, NoLink)
  >>

NodesById(nodes) ==
  [id \in {nodes[i].id : i \in 1..Len(nodes)} |->
     nodes[CHOOSE i \in 1..Len(nodes) : nodes[i].id = id]]
NodeOf == NodesById(NodeSeq)
NodeIds == DOMAIN NodeOf

\* node_tree.nodes, in order
TreeNodes(tree) == SelectSeq(NodeSeq, LAMBDA n : n.tree = tree)

(***************************************************************************)
(* bpy.types.Material: kind is "none" (the slot holds None), "basic"       *)
(* (use_nodes is off) or "nodes".  A name that goes through sanitize_name  *)
(* is a sequence of characters.                                            *)
(***************************************************************************)
Mat(key, name, kind, node_tree, blend_method, culling) ==
  [key |-> key, name |-> name, kind |-> kind, node_tree |-> node_tree,
   blend_method |-> blend_method, alpha_threshold |-> F(500),
   use_backface_culling |-> culling,
   diffuse_color |-> <<F(800), F(800), F(800), F(1000)>>,
   roughness |-> F(400), metallic |-> F(0), specular_intensity |-> F(500)]

MaterialSeq ==
  << Mat("Plain", <<"P", "l", "a", "i", "n">>, "nodes", "plain", "OPAQUE", FALSE),
     Mat("Shared", <<"S", "h", "a", "r", "e", "d">>, "nodes", "shared", "OPAQUE", FALSE),
     Mat("SharedBW", <<"S", "h", " ", "B", "W">>, "nodes", "sharedbw", "OPAQUE", TRUE),
     Mat("Disabled", <<"O", "f", "f">>, "nodes", "disabled", "OPAQUE", FALSE),
     Mat("Ramp2", <<"R", "a", "m", "p", "2">>, "nodes", "ramp2", "BLEND", FALSE),
     Mat("Curve", <<"C", "u", "r", "v", "e">>, "nodes", "curve", "CLIP", FALSE),
     Mat("Direct", <<"D", "i", "r", "e", "c", "t">>, "nodes", "direct", "OPAQUE", FALSE),
     Mat("Grouped", <<"G", "r", "o", "u", "p">>, "nodes", "grouped", "OPAQUE", FALSE),
     Mat("TexTexA", <<"T", "e", "x", "A">>, "nodes", "textexa", "OPAQUE", FALSE),
     Mat("TexTexB", <<"T", "e", "x", "B">>, "nodes", "textexb", "HASHED", FALSE),
     Mat("Nested", <<"N", "e", "s", "t">>, "nodes", "nested", "OPAQUE", FALSE),
     Mat("AddFail", <<"A", "d", "d", "F">>, "nodes", "addfail", "OPAQUE", FALSE),
     Mat("NormalFail", <<"N", "r", "m", "F">>, "nodes", "normalfail", "OPAQUE", FALSE),
     Mat("Volume", <<"V", "o", "l">>, "nodes", "volume", "OPAQUE", FALSE),
     Mat("Empty", <<"E", "m", "p", "t", "y">>, "nodes", "empty", "OPAQUE", FALSE),
     Mat("Unhandled", <<"U", "n", "h">>, "nodes", "unhandled", "OPAQUE", FALSE),
     Mat("MapLoose", <<"M", "a", "p">>, "nodes", "maploose", "OPAQUE", FALSE),
     Mat("DotVec", <<"D", "o", "t">>, "nodes", "dotvec", "OPAQUE", FALSE),
     Mat("Glow", <<"G", "l", "o", "w">>, "nodes", "glow", "OPAQUE", FALSE),
     Mat("AddOpacity", <<"A", "d", "d", "O">>, "nodes", "addopacity", "BLEND", FALSE),
     Mat("MixOpacity", <<"M", "i", "x", "O">>, "nodes", "mixopacity", "BLEND", FALSE),
     Mat("MixOpacity2", <<"M", "i", "x", "2">>, "nodes", "mixopacity2", "BLEND", FALSE),
     Mat("BumpCurve", <<"B", "m", "p", "C">>, "nodes", "bumpcurve", "OPAQUE", FALSE),
     Mat("BumpTex", <<"B", "m", "p", "T">>, "nodes", "bumptex", "OPAQUE", FALSE),
     Mat("BumpShared", <<"B", "m", "p", "S">>, "nodes", "bumpshared", "OPAQUE", FALSE),
     Mat("Checker", <<"C", "h", "k">>, "nodes", "checker", "OPAQUE", FALSE),
     Mat("SepXyz", <<"X", "y", "z">>, "nodes", "sepxyz", "BLEND", FALSE),
     Mat("Occluded", <<"O", "c", "c">>, "nodes", "occluded", "BLEND", FALSE),
     Mat("StubMix", <<"S", "t", "u", "b">>, "nodes", "stubmix", "OPAQUE", FALSE),
     Mat("MixShared", <<"M", "x", "S">>, "nodes", "mixshared", "OPAQUE", FALSE),
     Mat("TwoTex", <<"T", "w", "o">>, "nodes", "twotex", "OPAQUE", FALSE),
     Mat("TwoOut", <<"2", "o", "u", "t">>, "nodes", "twoout", "OPAQUE", FALSE),
     Mat("BumpTwo", <<"B", "m", "p", "2">>, "nodes", "bumptwo", "OPAQUE", FALSE),
     Mat("Basic", <<"_", "b", ".", "1">>, "basic", "", "OPAQUE", FALSE),
     Mat("None", <<>>, "none", "", "OPAQUE", FALSE) >>

MaterialsByKey(materials) ==
  [key \in {materials[i].key : i \in 1..Len(materials)} |->
     materials[CHOOSE i \in 1..Len(materials) : materials[i].key = key]]
MaterialOf == MaterialsByKey(MaterialSeq)
MaterialKeys == DOMAIN MaterialOf

\* the lists of unique materials an export run may be given
MaterialLists ==
  { <<"Plain">>,
    <<"Shared", "SharedBW", "Disabled">>,
    <<"Ramp2", "Curve">>,
    <<"Direct", "Grouped">>,
    <<"TexTexA", "TexTexB">>,
    <<"Nested", "TwoOut">>,
    <<"Curve", "AddFail", "Plain">>,
    <<"NormalFail">>,
    <<"Unhandled", "MapLoose", "DotVec", "Glow">>,
    <<"AddOpacity", "MixOpacity", "MixOpacity2">>,
    <<"BumpCurve", "BumpTex", "BumpShared">>,
    <<"Checker", "SepXyz", "Occluded">>,
    <<"StubMix", "Disabled", "MixShared">>,
    <<"TwoTex", "TexTexA", "BumpTwo">>,
    <<"Volume", "Empty", "Basic", "None">> }

(***************************************************************************)
(* Lookups in the graph model.                                             *)
(***************************************************************************)
SeqIndex(seq, name) ==
  IF \E i \in 1..Len(seq) : seq[i].name = name
  THEN CHOOSE i \in 1..Len(seq) : seq[i].name = name /\ \A j \in 1..(i-1) : seq[j].name # name
  ELSE 0

\* sockets[name]
SocketNamed(sockets, name) == sockets[SeqIndex(sockets, name)]
\* node.inputs[name] of an input socket reference <<node id, name>>
FieldOf(field) == SocketNamed(NodeOf[field[1]].inputs, field[2])
\* the output socket record of a socket reference <<node id, name>>
SocketOf(socket) == SocketNamed(NodeOf[socket[1]].outputs, socket[2])
HasInput(node, name) == SeqIndex(node.inputs, name) # 0
InputRef(node, name) == <<node.id, name>>

(***************************************************************************)
(* Program constants.                                                      *)
(***************************************************************************)
DATASMITH_TEXTURE_SIZE == 1024
BLENDER_CURVES_NAME == "blender_curves"
MAT_CTX_BUMP == "BUMP"
MAT_CTX_NORMAL == "NORMAL"
USE_TEXCOORD_FLIP_Y == TRUE
MAT_FUNC_PASSTHROUGH == "/DatasmithBlenderContent/MaterialFunctions/Passthrough"
MAT_FUNC_FLIPY == "/DatasmithBlenderContent/MaterialFunctions/FlipY"
MAT_FUNC_RGB_TO_BW == "/DatasmithBlenderContent/MaterialFunctions/RGB_To_BW"
MAT_FUNC_COMBINE_RGB == "/DatasmithBlenderContent/MaterialFunctions/CombineRGB"
MAT_FUNC_BREAK_FLOAT3 ==
  "/Engine/Functions/Engine_MaterialFunctions02/Utility/BreakOutFloat3Components"
MAT_FUNC_MAKE_FLOAT3 == "/Engine/Functions/Engine_MaterialFunctions02/Utility/MakeFloat3"
MAT_FUNC_BUMP == "/DatasmithBlenderContent/MaterialFunctions/Bump"
MAT_FUNC_MAPPINGS(vector_type) ==
  CASE vector_type = "NORMAL" -> "/DatasmithBlenderContent/MaterialFunctions/MappingNormal"
    [] vector_type = "POINT" -> "/DatasmithBlenderContent/MaterialFunctions/MappingPoint3D"
    [] vector_type = "TEXTURE" -> "/DatasmithBlenderContent/MaterialFunctions/MappingTexture3D"
    [] vector_type = "VECTOR" -> "/DatasmithBlenderContent/MaterialFunctions/MappingVector"
op_custom_functions(key) ==
  CASE key = "COLOR_RAMP" -> "/DatasmithBlenderContent/MaterialFunctions/ColorRamp"
    [] key = "CURVE_RGB" -> "/DatasmithBlenderContent/MaterialFunctions/RGBCurveLookup2"

(***************************************************************************)
(* data_types.Node as an emitted expression: its tag, one string attribute *)
(* (Function or Name), its numeric attribute, its children (the Input      *)
(* elements) and the sanitized name it refers to (PathName).  Node.push appends and returns the old size.      *)
(***************************************************************************)
XNodeN(tag, s, val, ins, name) ==
  [tag |-> tag, s |-> s, val |-> val, ins |-> ins, name |-> name]
XNode(tag, s, val, ins) == XNodeN(tag, s, val, ins, <<>>)

(***************************************************************************)
(* What a resolve returns: None, a reference to an expression (the dict    *)
(* {"expression": e, "OutputIndex": o}, the tuple (e, o) or the int e), or *)
(* a shader aggregate, a dict that is shared by reference: ref is its      *)
(* place in st.heap.                                                       *)
(***************************************************************************)
NoneV == [k |-> "none", e |-> -1, o |-> 0]
Exp(e, o) == [k |-> "exp", e |-> e, o |-> o]
Bsdf(ref) == [k |-> "bsdf", e |-> ref, o |-> 0]
Truthy(v) == v.k # "none"

R(st, v) == [st |-> st, v |-> v]
\* a statement "x = e" followed by the rest: With([x \in {e} |-> rest])
With(f) == f[CHOOSE x \in DOMAIN f : TRUE]
Ok(st) == st.err = ""
Raise(st, error) == IF Ok(st) THEN [st EXCEPT !.err = error] ELSE st

EmptyMap == [x \in {} |-> NoneV]
MapPut(map, key, value) ==
  [x \in DOMAIN map \cup {key} |-> IF x = key THEN value ELSE map[x]]

\* one event of the compile's trace (a history of what the resolver did);
\* a, b and d hold the dicts or values an event is about, ctx the context
\* stack in effect when it was logged
Ev(ev, field, socket, scope, by, n0, n1, v, w, flag) ==
  [ev |-> ev, field |-> field, socket |-> socket, scope |-> scope, by |-> by,
   n0 |-> n0, n1 |-> n1, v |-> v, w |-> w, flag |-> flag,
   a |-> <<>>, b |-> <<>>, d |-> <<>>, ctx |-> <<>>]
EvData(event, a, b, d) == [event EXCEPT !.a = a, !.b = b, !.d = d]
LogAlways(st, event) ==
  [st EXCEPT !.trace = Append(@, [event EXCEPT !.ctx = st.context_stack])]
Log(st, event) == IF Ok(st) THEN LogAlways(st, event) ELSE st

\* KeyError: exp_input on a dict without "expression" (a shader aggregate)
BadInput == -2

exp_input(input_idx, expression) ==
  CASE expression.k = "none" -> [n |-> input_idx, e |-> -1, o |-> 0]
    [] expression.k = "exp" -> [n |-> input_idx, e |-> expression.e, o |-> expression.o]
    [] expression.k = "bsdf" -> [n |-> input_idx, e |-> BadInput, o |-> 0]

exp_input_slot(input_idx, expression_idx, output_idx) ==
  [n |-> input_idx, e |-> expression_idx, o |-> output_idx]

push_exp_input(ins, input_idx, expression) ==
  IF expression.k # "none" THEN Append(ins, exp_input(input_idx, expression)) ELSE ins

\* exp_list.push(node): the index of the appended expression
Push(st, node) ==
  IF ~Ok(st) THEN R(st, -1)
  ELSE IF \E i \in 1..Len(node.ins) : node.ins[i].e = BadInput
       THEN R(Raise(st, "KeyError"), -1)
       ELSE R([st EXCEPT !.exp_list = Append(@, node)], Len(st.exp_list))

exp_scalar(st, value) == Push(st, XNode("Scalar", "", <<Fmt6(value)>>, <<>>))
\* exp_scalar of an int: "%f" % 3 is 3.000000
exp_scalar_int(st, value) == Push(st, XNode("Scalar", "", <<value * 1000000>>, <<>>))

exp_vector(st, value) == Push(st, XNode("Color", "A=1.0", Fmt6Seq(SubSeq(value, 1, 3)), <<>>))

exp_color(st, value, name) ==
  With([color \in {Push(st, XNode("Color", name, Fmt6Seq(value), <<>>))} |->
  With([alpha \in {exp_scalar(color.st, value[4])} |->
    Push(alpha.st,
         XNode("AppendVector", "", <<>>,
               <<exp_input_slot("0", color.v, 0), exp_input_slot("1", alpha.v, 0)>>))])])

(***************************************************************************)
(* Shader aggregates: a dict from channel name to expression, in insertion *)
(* order.                                                                  *)
(***************************************************************************)
Ch(name, v) == [n |-> name, v |-> v]
HasKey(dict, name) == \E i \in 1..Len(dict) : dict[i].n = name
KeyIndex(dict, name) == CHOOSE i \in 1..Len(dict) : dict[i].n = name
DictGet(dict, name) == IF HasKey(dict, name) THEN dict[KeyIndex(dict, name)].v ELSE NoneV
DictPut(dict, name, v) ==
  IF HasKey(dict, name) THEN [dict EXCEPT ![KeyIndex(dict, name)].v = v]
  ELSE Append(dict, Ch(name, v))
Keys(dict) == {dict[i].n : i \in 1..Len(dict)}

\* a new dict object
NewDict(st, dict) ==
  IF ~Ok(st) THEN R(st, NoneV)
  ELSE R([st EXCEPT !.heap = Append(@, dict)], Bsdf(Len(st.heap) + 1))
Deref(st, v) == IF v.k = "bsdf" THEN st.heap[v.e] ELSE <<>>
\* dict[name] = v on the dict object v_dict refers to
DictStore(st, v_dict, name, v) ==
  IF ~Ok(st) THEN st
  ELSE [st EXCEPT !.heap[v_dict.e] = DictPut(@, name, v)]

(***************************************************************************)
(* The log and the once-only warnings (report_warn, report_error).         *)
(***************************************************************************)
LogLine(st, level, message) ==
  IF Ok(st) THEN [st EXCEPT !.log = Append(@, <<level, message>>)] ELSE st

report_warn(st, message, once) ==
  IF once /\ message \in st.reported_warns THEN st
  ELSE LogLine(IF once /\ Ok(st)
               THEN [st EXCEPT !.reported_warns = @ \cup {message}] ELSE st,
               "warn", message)

report_error(st, message, once) ==
  IF once /\ message \in st.reported_errors THEN st
  ELSE LogLine(IF once /\ Ok(st)
               THEN [st EXCEPT !.reported_errors = @ \cup {message}] ELSE st,
               "error", message)

\* context_stack
push_texture_context(st, context) ==
  IF Ok(st) THEN [st EXCEPT !.context_stack = Append(@, context)] ELSE st
pop_texture_context(st) ==
  IF Ok(st) THEN [st EXCEPT !.context_stack = SubSeq(@, 1, Len(@) - 1)] ELSE st
get_context(st) ==
  IF Len(st.context_stack) > 0 THEN st.context_stack[Len(st.context_stack)] ELSE ""

(***************************************************************************)
(* data_types.sanitize_name.  A name is a sequence of characters; the      *)
(* character U+0060, which a TLA+ string cannot hold, is "backtick".       *)
(***************************************************************************)
invalid_chars ==
  <<" ", ".", ",", "/", "?", "<", ">", ";", ":", "'", "\"", "~", "backtick", "[",
    "]",
    "{", "}", "\\", "|", "!", "@", "#", "$", "%", "^", "&", "*", "(", ")", "=">>

StrReplace(str, old, new) == [i \in 1..Len(str) |-> IF str[i] = old THEN new ELSE str[i]]
StrContains(str, char) == \E i \in 1..Len(str) : str[i] = char

RECURSIVE sanitize_loop(_, _, _)
sanitize_loop(name, output, i) ==
  IF i > Len(invalid_chars) THEN output
  ELSE sanitize_loop(name,
                     IF StrContains(name, invalid_chars[i])
                     THEN StrReplace(output, invalid_chars[i], "_") ELSE output,
                     i + 1)

\* the replacement alone, without the digit before a leading underscore
sanitize_name_plain(name) == sanitize_loop(name, name, 1)

\* output[0] of an empty name raises IndexError: the callers pass non-empty names
sanitize_name(name) ==
  With([output \in {sanitize_loop(name, name, 1)} |->
    IF output[1] = "_" THEN <<"0">> \o output ELSE output])

(***************************************************************************)
(* The texture registry: the dict textures_dict the caller passes in, from *)
(* sanitized name to (name, image, type_hint), in insertion order.         *)
(***************************************************************************)
BlenderCurvesImage ==
  <<"b", "l", "e", "n", "d", "e", "r", "_", "c", "u", "r", "v", "e", "s">>

TexHas(img_dict, name) == \E i \in 1..Len(img_dict) : img_dict[i].name = name

\* a registry that takes every image it is shown
get_texture_name_append(st, in_image, type_hint) ==
  R([st EXCEPT !.tex_dict =
       Append(@, [name |-> sanitize_name(in_image), image |-> in_image,
                  type_hint |-> type_hint])],
    sanitize_name(in_image))

get_texture_name(st, in_image, type_hint) ==
  With([name \in {sanitize_name(in_image)} |->
    IF ~Ok(st) THEN R(st, name)
    ELSE
      With([registered \in
              {IF TexHas(st.tex_dict, name) THEN st
               ELSE [st EXCEPT !.tex_dict =
                       Append(@, [name |-> name, image |-> in_image,
                                  type_hint |-> type_hint])]} |->
        R(Log(registered,
              EvData(Ev("texture", <<>>, <<>>, st.scope, st.scope, Len(st.tex_dict),
                        Len(registered.tex_dict), NoneV, NoneV,
                        TexHas(st.tex_dict, name)),
                     in_image, name,
                     [type_hint |-> type_hint, before |-> st.tex_dict,
                      after |-> registered.tex_dict])),
          name)])])

(***************************************************************************)
(* The curve baker.  material_curves is the atlas: the rows written so     *)
(* far, each with the node whose ramp or curve was sampled into it; a row  *)
(* outside the domain is still all zero.  numpy wraps a negative row index *)
(* once and raises IndexError below -DATASMITH_TEXTURE_SIZE.               *)
(***************************************************************************)
RowOf(mat_curve_idx) ==
  IF DATASMITH_TEXTURE_SIZE - mat_curve_idx - 1 < 0
  THEN DATASMITH_TEXTURE_SIZE - mat_curve_idx - 1 + DATASMITH_TEXTURE_SIZE
  ELSE DATASMITH_TEXTURE_SIZE - mat_curve_idx - 1

\* factor of add_material_curve: sample idx is evaluated at idx / factor
factor == DATASMITH_TEXTURE_SIZE

\* position = idx / factor, in units of 1e-6
position(idx) == (idx * 1000000) \div factor

\* the sampling loop over idx in range(DATASMITH_TEXTURE_SIZE): the divisor
\* of the positions and the positions of the first and of the last sample
sampling == [factor |-> factor, first |-> position(0),
             last |-> position(DATASMITH_TEXTURE_SIZE - 1)]

add_material_curve(st, curve) ==
  IF ~Ok(st) THEN R(st, -1)
  ELSE
    With([mat_curve_idx \in {st.material_curves_count} |->
    With([s1 \in {[st EXCEPT !.material_curves_count = @ + 1]} |->
    With([row_idx \in {DATASMITH_TEXTURE_SIZE - mat_curve_idx - 1} |->
      IF row_idx < -DATASMITH_TEXTURE_SIZE THEN R(Raise(s1, "IndexError"), -1)
      ELSE R(Log([s1 EXCEPT !.material_curves =
                    MapPut(@, RowOf(mat_curve_idx), curve)],
                 EvData(Ev("curve", <<>>, <<curve, "">>, st.scope, st.scope,
                           mat_curve_idx, RowOf(mat_curve_idx), NoneV, NoneV, FALSE),
                        sampling, <<>>, <<>>)),
             mat_curve_idx)])])])

(***************************************************************************)
(* The socket resolver.  get_expression and get_expression_inner call the  *)
(* node translators, which call get_expression on the node's inputs.       *)
(***************************************************************************)
RECURSIVE get_expression(_, _, _, _)
RECURSIVE get_expression_inner(_, _, _)

\* get_expression(field, exp_list) with the default flags
Resolve(st, node, name) == get_expression(st, InputRef(node, name), FALSE, FALSE)

\* node_handlers["RGB"]
exp_rgb(st, socket) ==
  With([c \in {exp_color(st, SocketOf(socket).default_value, NodeOf[socket[1]].label)} |->
    R(c.st, Exp(c.v, 0))])

\* node_handlers["VALUE"]
exp_value(st, socket) ==
  With([n \in {Push(st, XNode("Scalar", NodeOf[socket[1]].label,
                              <<Fmt6(SocketOf(socket).default_value[1])>>, <<>>))} |->
    R(n.st, Exp(n.v, 0))])

exp_texture_object(st, name) == Push(st, XNode("TextureObject", name, <<>>, <<>>))

\* node_handlers["VALTORGB"]
exp_color_ramp(st, socket) ==
  With([from_node \in {NodeOf[socket[1]]} |->
  With([idx \in {add_material_curve(st, from_node.id)} |->
  With([level \in {Resolve(idx.st, from_node, "Fac")} |->
  With([curve_idx \in {exp_scalar_int(level.st, idx.v)} |->
  With([vertical_res \in {exp_scalar_int(curve_idx.st, DATASMITH_TEXTURE_SIZE)} |->
  With([texture \in {exp_texture_object(vertical_res.st, BLENDER_CURVES_NAME)} |->
  With([result \in {Push(texture.st,
                         XNode("FunctionCall", op_custom_functions("COLOR_RAMP"), <<>>,
                               <<exp_input("0", level.v),
                                 exp_input_slot("1", curve_idx.v, 0),
                                 exp_input_slot("2", vertical_res.v, 0),
                                 exp_input_slot("3", texture.v, 0)>>))} |->
    R(result.st, Exp(result.v, 0))])])])])])])])

\* node_handlers["CURVE_RGB"]
exp_curvergb(st, socket) ==
  With([from_node \in {NodeOf[socket[1]]} |->
  With([idx \in {add_material_curve(st, from_node.id)} |->
  With([fac \in {Resolve(idx.st, from_node, "Fac")} |->
  With([color \in {Resolve(fac.st, from_node, "Color")} |->
  With([curve_idx \in {exp_scalar_int(color.st, idx.v)} |->
  With([vertical_res \in {exp_scalar_int(curve_idx.st, DATASMITH_TEXTURE_SIZE)} |->
  With([texture \in {exp_texture_object(vertical_res.st, BLENDER_CURVES_NAME)} |->
  With([blend_exp \in {Push(texture.st,
                            XNode("FunctionCall", op_custom_functions("CURVE_RGB"), <<>>,
                                  <<exp_input("0", color.v),
                                    exp_input_slot("1", curve_idx.v, 0),
                                    exp_input_slot("2", vertical_res.v, 0),
                                    exp_input_slot("3", texture.v, 0)>>))} |->
  With([result \in {Push(blend_exp.st,
                         XNode("LinearInterpolate", "", <<>>,
                               <<exp_input("0", color.v),
                                 exp_input_slot("1", blend_exp.v, 0),
                                 exp_input("2", fac.v)>>))} |->
    R(result.st, Exp(result.v, 0))])])])])])])])])])

\* the generator of a texture's default coordinates
exp_texcoord(st) ==
  With([exp_uv \in {Push(st, XNode("TextureCoordinate", "",
                                   <<0, Fmt6(F(1000)), Fmt6(F(1000))>>, <<>>))} |->
  With([flip \in {IF USE_TEXCOORD_FLIP_Y
                  THEN Push(exp_uv.st, XNode("FunctionCall", MAT_FUNC_FLIPY, <<>>,
                                            <<exp_input_slot("0", exp_uv.v, 0)>>))
                  ELSE exp_uv} |->
  With([zero \in {exp_scalar(flip.st, F(0))} |->
  With([pad \in {Push(zero.st, XNode("AppendVector", "", <<>>,
                                     <<exp_input_slot("0", flip.v, 0),
                                       exp_input_slot("1", zero.v, 0)>>))} |->
    R(pad.st, Exp(pad.v, 0))])])])])

MAT_FUNC_TEXCOORD_GENERATED ==
  "/DatasmithBlenderContent/MaterialFunctions/TexCoord_Generated"

exp_texcoord_generated(st) ==
  With([n \in {Push(st, XNode("FunctionCall", MAT_FUNC_TEXCOORD_GENERATED, <<>>, <<>>))} |->
    R(n.st, Exp(n.v, 0))])

\* generator(exp_list)
Generate(st, generator) ==
  CASE generator = "exp_texcoord" -> exp_texcoord(st)
    [] generator = "exp_texcoord_generated" -> exp_texcoord_generated(st)

AxisIndex(axis) == CASE axis = "X" -> 0 [] axis = "Y" -> 1 [] axis = "Z" -> 2

\* the MakeFloat3 inputs of a remapped axis triple
MakeInput(mapping_axes, node_break_exp, idx) ==
  IF mapping_axes[idx] \in {"X", "Y", "Z"}
  THEN <<exp_input_slot(<<"0", "1", "2">>[idx], node_break_exp,
                        AxisIndex(mapping_axes[idx]))>>
  ELSE <<>>

MakeInputs(mapping_axes, node_break_exp) ==
  MakeInput(mapping_axes, node_break_exp, 1)
    \o MakeInput(mapping_axes, node_break_exp, 2)
    \o MakeInput(mapping_axes, node_break_exp, 3)

\* the axis reprojection of get_expression_mapped
remap_axes(forced, mapping, generator) ==
  IF mapping.mapping # <<"X", "Y", "Z">>
  THEN With([base \in {IF ~Truthy(forced.v) THEN Generate(forced.st, generator)
                       ELSE forced} |->
       With([node_break \in {Push(base.st,
                                  XNode("FunctionCall", MAT_FUNC_BREAK_FLOAT3, <<>>,
                                        push_exp_input(<<>>, "0", base.v)))} |->
       With([node_make \in {Push(node_break.st,
                                 XNode("FunctionCall", MAT_FUNC_MAKE_FLOAT3, <<>>,
                                       MakeInputs(mapping.mapping, node_break.v)))} |->
         R(node_make.st, Exp(node_make.v, 0))])])])
  ELSE forced

\* the mapping function of get_expression_mapped
apply_mapping(remapped, mapping, generator) ==
  IF mapping.translation # <<F(0), F(0), F(0)>> \/ mapping.rotation # <<F(0), F(0), F(0)>>
       \/ mapping.scale # <<F(1000), F(1000), F(1000)>>
  THEN With([base \in {IF ~Truthy(remapped.v) THEN Generate(remapped.st, generator)
                       ELSE remapped} |->
       With([loc \in {exp_vector(base.st, mapping.translation)} |->
       With([rot \in {exp_vector(loc.st, mapping.rotation)} |->
       With([scale \in {exp_vector(rot.st, mapping.scale)} |->
       With([n \in {Push(scale.st,
                         XNode("FunctionCall", MAT_FUNC_MAPPINGS(mapping.vector_type), <<>>,
                               push_exp_input(<<>>, "0", base.v)
                                 \o <<exp_input_slot("1", loc.v, 0),
                                      exp_input_slot("2", rot.v, 0),
                                      exp_input_slot("3", scale.v, 0)>>))} |->
         R(n.st, Exp(n.v, 0))])])])])])
  ELSE remapped

get_expression_mapped(st, socket, generator, force_exp) ==
  With([mapping \in {NodeOf[socket[1]].texture_mapping} |->
  With([first \in {IF Len(FieldOf(socket).links) # 0
                   THEN get_expression(st, socket, FALSE, FALSE) ELSE R(st, NoneV)} |->
  With([forced \in {IF first.v.k = "none" /\ force_exp
                    THEN Generate(first.st, generator) ELSE first} |->
  With([remapped \in {remap_axes(forced, mapping, generator)} |->
    apply_mapping(remapped, mapping, generator)])])])])

\* socket_names.index(socket_name), from 0; -1: ValueError
NameIndex(socket_names, socket_name) ==
  IF \E i \in 1..Len(socket_names) : socket_names[i] = socket_name
  THEN (CHOOSE i \in 1..Len(socket_names) :
          socket_names[i] = socket_name /\ \A j \in 1..(i-1) : socket_names[j] # socket_name) - 1
  ELSE -1

\* a cache that answers every output with the first slot
exp_from_cache_first(st, cached_node, socket_name) == R(st, Exp(cached_node.idx, 0))

exp_from_cache(st, cached_node, socket_name) ==
  With([socket_names \in {cached_node.names} |->
  With([output_index \in
          {IF socket_name = "Factor" /\ NameIndex(socket_names, "Fac") >= 0
           THEN NameIndex(socket_names, "Fac")
           ELSE NameIndex(socket_names, socket_name)} |->
    IF output_index < 0 THEN R(Raise(st, "ValueError"), NoneV)
    ELSE R(st, Exp(cached_node.idx, output_index))])])

\* cached_nodes[node] = cached_node
CacheNode(st, node_id, idx, names) ==
  IF Ok(st)
  THEN [st EXCEPT !.cached_nodes =
          MapPut(@, node_id, [idx |-> idx, names |-> names, by |-> st.scope])]
  ELSE st

ProjectionNode(projection) ==
  CASE projection = "FLAT" -> XNode("ComponentMask", "", <<>>, <<>>)
    [] projection = "BOX" ->
         XNode("FunctionCall", "/DatasmithBlenderContent/MaterialFunctions/TexImage_ProjBox", <<>>, <<>>)
    [] projection = "SPHERE" ->
         XNode("FunctionCall", "/DatasmithBlenderContent/MaterialFunctions/TexImage_ProjSphere", <<>>, <<>>)
    [] projection = "TUBE" ->
         XNode("FunctionCall", "/DatasmithBlenderContent/MaterialFunctions/TexImage_ProjTube", <<>>, <<>>)

\* node_handlers["TEX_IMAGE"]
exp_tex_image(st, socket) ==
  With([node \in {NodeOf[socket[1]]} |->
  IF Len(node.image) = 0
  THEN With([zero \in {exp_scalar(st, F(0))} |-> R(zero.st, Exp(zero.v, 0))])
  ELSE
  With([context \in {get_context(st)} |->
  With([should_whitelist \in {context = MAT_CTX_BUMP} |->
  With([texture_type \in {IF context = "" \/ context = MAT_CTX_BUMP THEN "SRGB"
                          ELSE context} |->
  With([name \in {get_texture_name(st, node.image, texture_type)} |->
  With([tex_coord \in {get_expression_mapped(name.st, InputRef(node, "Vector"),
                                             "exp_texcoord", FALSE)} |->
  With([proj \in {IF Truthy(tex_coord.v)
                  THEN IF node.projection \in {"FLAT", "BOX", "SPHERE", "TUBE"}
                       THEN With([p \in {Push(tex_coord.st,
                                              [ProjectionNode(node.projection)
                                                 EXCEPT !.ins = push_exp_input(<<>>, "0",
                                                                               tex_coord.v)])} |->
                              R(p.st, Exp(p.v, 0))])
                       ELSE R(Raise(tex_coord.st, "AttributeError"), NoneV)
                  ELSE tex_coord} |->
  With([flip \in {IF Truthy(proj.v) /\ USE_TEXCOORD_FLIP_Y
                  THEN With([f \in {Push(proj.st,
                                         XNode("FunctionCall", MAT_FUNC_FLIPY, <<>>,
                                               push_exp_input(<<>>, "0", proj.v)))} |->
                         R(f.st, Exp(f.v, 0))])
                  ELSE proj} |->
  With([texture \in {Push(flip.st,
                          XNodeN("Texture", "", <<>>,
                                 IF Truthy(flip.v)
                                 THEN <<exp_input("Coordinates", flip.v)>> ELSE <<>>,
                                 name.v))} |->
  With([normal \in {IF texture_type = MAT_CTX_NORMAL
                    THEN Push(texture.st,
                              XNode("FunctionCall",
                                    "/DatasmithBlenderContent/MaterialFunctions/NormalTo01",
                                    <<>>, <<exp_input_slot("0", texture.v, 5)>>))
                    ELSE texture} |->
  With([outputs \in {IF texture_type = MAT_CTX_NORMAL THEN <<"Color", "Alpha">>
                     ELSE <<"0", "0", "0", "0", "Alpha", "Color">>} |->
  With([cached \in {CacheNode(normal.st, node.id, normal.v, outputs)} |->
  With([listed \in {IF should_whitelist /\ Ok(cached)
                    THEN [cached EXCEPT !.whitelisted_textures =
                                          Append(@, Exp(normal.v, 0))]
                    ELSE cached} |->
    exp_from_cache(listed, [idx |-> normal.v, names |-> outputs],
                   SocketOf(socket).name)])])])])])])])])])])])])])

\* node_handlers["TEX_CHECKER"]
exp_tex_checker(st, socket) ==
  With([node \in {NodeOf[socket[1]]} |->
  With([vector_exp \in {get_expression_mapped(st, InputRef(node, "Vector"),
                                              "exp_texcoord_generated", FALSE)} |->
  With([color1 \in {Resolve(vector_exp.st, node, "Color1")} |->
  With([color2 \in {Resolve(color1.st, node, "Color2")} |->
  With([scale \in {Resolve(color2.st, node, "Scale")} |->
  With([exp_idx \in
          {Push(scale.st,
                XNode("FunctionCall",
                      "/DatasmithBlenderContent/MaterialFunctions/TexChecker", <<>>,
                      push_exp_input(
                        push_exp_input(
                          push_exp_input(push_exp_input(<<>>, "0", vector_exp.v),
                                         "1", color1.v),
                          "2", color2.v),
                        "3", scale.v)))} |->
  With([outputs \in {<<"Color", "Fac">>} |->
    exp_from_cache(CacheNode(exp_idx.st, node.id, exp_idx.v, outputs),
                   [idx |-> exp_idx.v, names |-> outputs],
                   SocketOf(socket).name)])])])])])])])

NODE_BREAK_XYZ_OUTPUTS == <<"X", "Y", "Z">>

\* node_handlers["SEPXYZ"]
exp_break_vec3(st, socket) ==
  With([node \in {NodeOf[socket[1]]} |->
  With([input \in {get_expression(st, <<node.id, node.inputs[1].name>>, FALSE, FALSE)} |->
  With([expression_idx \in
          {Push(input.st, XNode("FunctionCall", MAT_FUNC_BREAK_FLOAT3, <<>>,
                                <<exp_input("0", input.v)>>))} |->
    exp_from_cache(CacheNode(expression_idx.st, node.id, expression_idx.v,
                             NODE_BREAK_XYZ_OUTPUTS),
                   [idx |-> expression_idx.v, names |-> NODE_BREAK_XYZ_OUTPUTS],
                   SocketOf(socket).name)])])])

\* node_handlers["AMBIENT_OCCLUSION"]
exp_ambient_occlusion(st, socket) ==
  CASE SocketOf(socket).name = "Color" ->
         Resolve(report_warn(st, <<"Unsupported material node: AMBIENT_OCCLUSION, exporting plain color instead">>, FALSE),
                 NodeOf[socket[1]], "Color")
    [] SocketOf(socket).name = "AO" ->
         With([exp \in {exp_scalar(report_warn(st, <<"Unsupported material node: AMBIENT_OCCLUSION, exporting 1.0 value instead">>, FALSE),
                                   F(1000))} |->
           R(exp.st, Exp(exp.v, 0))])
    [] OTHER ->
         R(report_error(st, <<"Unsupported AMBIENT_OCCLUSION output: %s",
                              SocketOf(socket).name>>, FALSE),
           NoneV)

\* node_handlers["NORMAL_MAP"]
exp_normal_map(st, socket) ==
  With([node \in {NodeOf[socket[1]]} |->
  With([exp_strength \in {Resolve(st, node, "Strength")} |->
  With([pushed \in {push_texture_context(exp_strength.st, MAT_CTX_NORMAL)} |->
  With([color \in {Resolve(pushed, node, "Color")} |->
  With([popped \in {pop_texture_context(color.st)} |->
  With([node_strength \in
          {Push(popped,
                XNode("FunctionCall",
                      "/DatasmithBlenderContent/MaterialFunctions/NormalStrength", <<>>,
                      push_exp_input(push_exp_input(<<>>, "0", exp_strength.v),
                                     "1", color.v)))} |->
    R(node_strength.st, Exp(node_strength.v, 0))])])])])])])

\* node_handlers["BUMP"]
exp_bump(st, socket) ==
  With([node \in {NodeOf[socket[1]]} |->
  With([exp_invert \in {exp_scalar_int(st, IF node.invert THEN -1 ELSE 1)} |->
  With([pushed \in {push_texture_context(exp_invert.st, MAT_CTX_BUMP)} |->
  With([strength \in {Resolve(pushed, node, "Strength")} |->
  With([distance \in {Resolve(strength.st, node, "Distance")} |->
  With([height \in {Resolve(distance.st, node, "Height")} |->
  With([popped \in {pop_texture_context(height.st)} |->
  With([normal \in {get_expression(popped, InputRef(node, "Normal"), FALSE, TRUE)} |->
  With([bump_node \in
          {Push(normal.st,
                XNode("FunctionCall", MAT_FUNC_BUMP, <<>>,
                      push_exp_input(
                        push_exp_input(
                          push_exp_input(
                            push_exp_input(<<exp_input_slot("0", exp_invert.v, 0)>>,
                                           "1", strength.v),
                            "2", distance.v),
                          "3", height.v),
                        "4", normal.v)))} |->
    R(bump_node.st, Exp(bump_node.v, 0))])])])])])])])])])

\* node_handlers["MAPPING"]
exp_mapping(st, socket) ==
  With([node \in {NodeOf[socket[1]]} |->
  With([input_vector \in {Resolve(st, node, "Vector")} |->
  With([input_rotation \in {Resolve(input_vector.st, node, "Rotation")} |->
  With([input_scale \in {Resolve(input_rotation.st, node, "Scale")} |->
  With([with_location \in {node.vector_type \notin {"NORMAL", "VECTOR"}} |->
  With([input_location \in {IF with_location
                            THEN Resolve(input_scale.st, node, "Location")
                            ELSE R(input_scale.st, NoneV)} |->
  With([n \in {Push(input_location.st,
                    XNode("FunctionCall", MAT_FUNC_MAPPINGS(node.vector_type), <<>>,
                          <<exp_input("0", input_vector.v)>>
                            \o (IF with_location
                                THEN <<exp_input("1", input_location.v)>> ELSE <<>>)
                            \o <<exp_input("2", input_rotation.v),
                                 exp_input("3", input_scale.v)>>))} |->
    R(n.st, Exp(n.v, 0))])])])])])])])

\* the tags the module registers with @blender_node
RegisteredTypes ==
  {"AMBIENT_OCCLUSION", "ATTRIBUTE", "VERTEX_COLOR", "BEVEL", "FRESNEL", "NEW_GEOMETRY",
   "LAYER_WEIGHT", "LIGHT_PATH", "OBJECT_INFO", "PARTICLE_INFO", "RGB", "TEX_COORD",
   "UVMAP", "VALUE", "WIREFRAME", "TEX_BRICK", "TEX_CHECKER", "TEX_GRADIENT",
   "TEX_IMAGE", "TEX_MAGIC", "TEX_MUSGRAVE", "TEX_NOISE", "TEX_SKY", "TEX_VORONOI",
   "TEX_WAVE", "TEX_WHITE_NOISE", "BRIGHTCONTRAST", "GAMMA", "HUE_SAT", "INVERT",
   "LIGHT_FALLOFF", "MIX_RGB", "CURVE_RGB", "BUMP", "MAPPING", "NORMAL", "NORMAL_MAP",
   "VECT_TRANSFORM", "VECTOR_ROTATE", "BLACKBODY", "CLAMP", "VALTORGB", "COMBXYZ",
   "COMBRGB", "COMBHSV", "COMBINE_COLOR", "SEPXYZ", "SEPRGB", "SEPHSV",
   "SEPARATE_COLOR", "RGBTOBW", "MAP_RANGE", "MATH", "VECT_MATH", "SHADERTORGB", "MIX"}

\* the node types of the shader table of get_expression_inner
ShaderTypes ==
  {"BSDF_PRINCIPLED", "EEVEE_SPECULAR", "BSDF_DIFFUSE", "BSDF_TOON", "BSDF_GLOSSY",
   "BSDF_VELVET", "BSDF_TRANSPARENT", "BSDF_TRANSLUCENT", "BSDF_GLASS", "BSDF_HAIR",
   "SUBSURFACE_SCATTERING", "BSDF_REFRACTION", "BSDF_ANISOTROPIC", "EMISSION",
   "HOLDOUT"}

\* the node types get_expression_inner takes before the shader table
StructuralTypes == {"GROUP", "GROUP_INPUT", "REROUTE", "ADD_SHADER", "MIX_SHADER"}

\* node_handlers: the registered translators
HandledTypes ==
  {"RGB", "VALUE", "VALTORGB", "CURVE_RGB", "TEX_IMAGE", "NORMAL_MAP", "BUMP", "MAPPING",
   "TEX_CHECKER", "SEPXYZ", "AMBIENT_OCCLUSION"}

node_handler(st, socket) ==
  With([type \in {NodeOf[socket[1]].type} |->
    CASE type = "RGB" -> exp_rgb(st, socket)
      [] type = "VALUE" -> exp_value(st, socket)
      [] type = "VALTORGB" -> exp_color_ramp(st, socket)
      [] type = "CURVE_RGB" -> exp_curvergb(st, socket)
      [] type = "TEX_IMAGE" -> exp_tex_image(st, socket)
      [] type = "NORMAL_MAP" -> exp_normal_map(st, socket)
      [] type = "BUMP" -> exp_bump(st, socket)
      [] type = "MAPPING" -> exp_mapping(st, socket)
      [] type = "TEX_CHECKER" -> exp_tex_checker(st, socket)
      [] type = "SEPXYZ" -> exp_break_vec3(st, socket)
      [] type = "AMBIENT_OCCLUSION" -> exp_ambient_occlusion(st, socket)])

(***************************************************************************)
(* Shader nodes: each returns the channels of its aggregate, in the order  *)
(* the dict literal evaluates them.                                        *)
(***************************************************************************)
D(st, dict) == [st |-> st, dict |-> dict]

\* {"expression": exp_scalar(value, exp_list)}
ScalarExp(st, value) == With([n \in {exp_scalar(st, value)} |-> R(n.st, Exp(n.v, 0))])

FirstInput(node, name, fallback) == IF HasInput(node, name) THEN name ELSE fallback

\* the EmissiveColor channel of the Principled BSDF
principled_emission(st, node, emission_name) ==
  With([emission_strength_field \in {FieldOf(InputRef(node, "Emission Strength"))} |->
  IF Len(emission_strength_field.links) # 0
       \/ emission_strength_field.default_value[1] # F(1000)
  THEN With([color \in {Resolve(st, node, emission_name)} |->
       With([strength \in {Resolve(color.st, node, "Emission Strength")} |->
       With([mult \in {Push(strength.st,
                            XNode("Multiply", "", <<>>,
                                  <<exp_input("0", color.v),
                                    exp_input("1", strength.v)>>))} |->
         R(mult.st, Exp(mult.v, 0))])])])
  ELSE Resolve(st, node, emission_name)])

bsdf_principled(st, node) ==
  With([base \in {Resolve(st, node, "Base Color")} |->
  With([metallic \in {Resolve(base.st, node, "Metallic")} |->
  With([roughness \in {Resolve(metallic.st, node, "Roughness")} |->
  With([specular \in {Resolve(roughness.st, node,
                              FirstInput(node, "Specular IOR Level", "Specular"))} |->
  With([opacity_field \in {FieldOf(InputRef(node, "Alpha"))} |->
  With([add_opacity \in {Len(opacity_field.links) # 0
                           \/ opacity_field.default_value[1] # F(1000)} |->
  With([opacity \in {IF add_opacity THEN Resolve(specular.st, node, "Alpha")
                     ELSE R(specular.st, NoneV)} |->
  With([emission \in {principled_emission(opacity.st, node,
                                          FirstInput(node, "Emission Color",
                                                     "Emission"))} |->
  With([clear_coat_name \in {FirstInput(node, "Coat Weight", "Clearcoat")} |->
  With([clear_coat_field \in {FieldOf(InputRef(node, clear_coat_name))} |->
  With([use_clear_coat \in {Len(clear_coat_field.links) # 0
                              \/ clear_coat_field.default_value[1] # F(0)} |->
  With([clear_coat_exp \in {IF use_clear_coat
                            THEN Resolve(emission.st, node, clear_coat_name)
                            ELSE R(emission.st, NoneV)} |->
  With([clear_coat_roughness_exp \in
          {IF use_clear_coat
           THEN Resolve(clear_coat_exp.st, node,
                        FirstInput(node, "Coat Roughness", "Clearcoat Roughness"))
           ELSE clear_coat_exp} |->
    D(clear_coat_roughness_exp.st,
      <<Ch("BaseColor", base.v), Ch("Metallic", metallic.v),
        Ch("Roughness", roughness.v), Ch("Specular", specular.v)>>
        \o (IF add_opacity THEN <<Ch("Opacity", opacity.v)>> ELSE <<>>)
        \o <<Ch("EmissiveColor", emission.v)>>
        \o (IF use_clear_coat
            THEN <<Ch("ClearCoat", clear_coat_exp.v),
                   Ch("ClearCoatRoughness", clear_coat_roughness_exp.v)>>
            ELSE <<>>))])])])])])])])])])])])])])

bsdf_diffuse(st, node) ==
  With([color \in {Resolve(st, node, "Color")} |->
  With([roughness \in {ScalarExp(color.st, F(1000))} |->
  With([metallic \in {ScalarExp(roughness.st, F(0))} |->
    D(metallic.st, <<Ch("BaseColor", color.v), Ch("Roughness", roughness.v),
                     Ch("Metallic", metallic.v)>>)])])])

bsdf_glossy(st, node) ==
  With([color \in {Resolve(st, node, "Color")} |->
  With([roughness \in {Resolve(color.st, node, "Roughness")} |->
  With([metallic \in {ScalarExp(roughness.st, F(1000))} |->
    D(metallic.st, <<Ch("BaseColor", color.v), Ch("Roughness", roughness.v),
                     Ch("Metallic", metallic.v)>>)])])])

bsdf_transparent(st, node) ==
  With([warned \in {report_warn(st, <<"BSDF_TRANSPARENT incomplete implementation">>,
                                TRUE)} |->
  With([color \in {Resolve(warned, node, "Color")} |->
  With([refraction \in {ScalarExp(color.st, F(1000))} |->
  With([opacity \in {ScalarExp(refraction.st, F(0))} |->
    D(opacity.st, <<Ch("BaseColor", color.v), Ch("Refraction", refraction.v),
                    Ch("Opacity", opacity.v)>>)])])])])

\* an Emission that hands its Color on when Strength is an unlinked 1
bsdf_emission_plain(st, node) ==
  With([f \in {FieldOf(InputRef(node, "Strength"))} |->
  With([color \in {Resolve(st, node, "Color")} |->
    IF Len(f.links) # 0 \/ f.default_value[1] # F(1000)
    THEN With([strength \in {Resolve(color.st, node, "Strength")} |->
         With([mult_exp \in {Push(strength.st,
                                  XNode("Multiply", "", <<>>,
                                        <<exp_input("0", color.v),
                                          exp_input("1", strength.v)>>))} |->
           D(mult_exp.st, <<Ch("EmissiveColor", Exp(mult_exp.v, 0))>>)])])
    ELSE D(color.st, <<Ch("EmissiveColor", color.v)>>)])])

bsdf_emission(st, node) ==
  With([color \in {Resolve(st, node, "Color")} |->
  With([strength \in {Resolve(color.st, node, "Strength")} |->
  With([mult_exp \in {Push(strength.st,
                           XNode("Multiply", "", <<>>,
                                 <<exp_input("0", color.v),
                                   exp_input("1", strength.v)>>))} |->
    D(mult_exp.st, <<Ch("EmissiveColor", Exp(mult_exp.v, 0))>>)])])])

bsdf_holdout(st, node) ==
  With([base \in {exp_vector(st, <<F(0), F(0), F(0)>>)} |->
  With([roughness \in {ScalarExp(base.st, F(1000))} |->
    D(roughness.st, <<Ch("BaseColor", Exp(base.v, 0)), Ch("Roughness", roughness.v)>>)])])

BsdfTypes == {"BSDF_PRINCIPLED", "BSDF_DIFFUSE", "BSDF_GLOSSY", "BSDF_TRANSPARENT",
              "EMISSION", "HOLDOUT"}

\* the shader table of get_expression_inner and the Normal input that follows it
exp_bsdf(st, socket) ==
  With([node \in {NodeOf[socket[1]]} |->
  With([bsdf \in {CASE node.type = "BSDF_PRINCIPLED" -> bsdf_principled(st, node)
                    [] node.type = "BSDF_DIFFUSE" -> bsdf_diffuse(st, node)
                    [] node.type = "BSDF_GLOSSY" -> bsdf_glossy(st, node)
                    [] node.type = "BSDF_TRANSPARENT" -> bsdf_transparent(st, node)
                    [] node.type = "EMISSION" -> bsdf_emission(st, node)
                    [] node.type = "HOLDOUT" -> bsdf_holdout(st, node)} |->
  With([logged \in {Log(bsdf.st,
                         EvData(Ev("bsdf", <<>>, socket, st.scope, st.scope,
                                   Len(st.exp_list), Len(bsdf.st.exp_list), NoneV, NoneV,
                                   FALSE),
                                <<>>, <<>>, bsdf.dict))} |->
  With([asserted \in {IF SocketOf(socket).type = "SHADER" THEN logged
                      ELSE Raise(logged, "AssertionError")} |->
  With([with_normal \in {HasInput(node, "Normal")
                           /\ Len(FieldOf(InputRef(node, "Normal")).links) # 0} |->
  With([normal \in {IF with_normal THEN Resolve(asserted, node, "Normal")
                    ELSE R(asserted, NoneV)} |->
    NewDict(normal.st,
            IF with_normal THEN DictPut(bsdf.dict, "Normal", normal.v)
            ELSE bsdf.dict)])])])])])])

\* sorted(): the channel names in code point order
ChannelOrder ==
  <<"BaseColor", "ClearCoat", "ClearCoatRoughness", "EmissiveColor", "Metallic",
    "Normal", "Opacity", "Refraction", "Roughness", "Specular">>

\* assert expressions
AssertTruthy(r) == IF Truthy(r.v) THEN r ELSE R(Raise(r.st, "AssertionError"), r.v)

\* a combination that blends every channel, the colours too
add_both_blend(st, name, exp_a, exp_b) ==
  With([half \in {ScalarExp(st, F(500))} |->
  With([n \in {Push(half.st,
                    XNode("LinearInterpolate", "", <<>>,
                          <<exp_input("0", exp_a), exp_input("1", exp_b),
                            exp_input("2", half.v)>>))} |->
    R(n.st, Exp(n.v, 0))])])

\* the combination of a channel that both operands of Add Shader carry
add_both(st, name, exp_a, exp_b) ==
  With([use_add \in {name \in {"BaseColor", "EmissiveColor"}} |->
  With([half \in {IF use_add THEN R(st, NoneV) ELSE ScalarExp(st, F(500))} |->
  With([n \in {Push(half.st,
                    XNode(IF use_add THEN "Add" ELSE "LinearInterpolate", "", <<>>,
                          <<exp_input("0", exp_a), exp_input("1", exp_b)>>
                            \o (IF use_add THEN <<>>
                                ELSE <<exp_input("2", half.v)>>)))} |->
    R(n.st, Exp(n.v, 0))])])])

\* Add Shader that hands every one-sided channel through, Opacity too
add_one_sided_plain(st, name, exp) == R(st, exp)

\* Add Shader that drops a Normal only one operand carries
add_one_sided_no_normal(st, name, exp) ==
  IF name = "Normal" THEN R(st, NoneV) ELSE R(st, exp)

\* a channel that only one operand of Add Shader carries
add_one_sided(st, name, exp) ==
  IF name = "Opacity"
  THEN With([one \in {exp_scalar_int(st, 1)} |->
       With([half \in {exp_scalar(one.st, F(500))} |->
       With([n \in {Push(half.st,
                         XNode("LinearInterpolate", "", <<>>,
                               <<exp_input("0", exp), exp_input_slot("1", one.v, 0),
                                 exp_input_slot("2", half.v, 0)>>))} |->
         R(n.st, Exp(n.v, 0))])])])
  ELSE R(st, exp)

RECURSIVE add_shader_loop(_, _, _, _, _)
add_shader_loop(st, all_keys, expressions, expressions1, add_expression) ==
  IF Len(all_keys) = 0 \/ ~Ok(st) THEN D(st, add_expression)
  ELSE
    With([name \in {Head(all_keys)} |->
    With([exp_a \in {DictGet(expressions, name)} |->
    With([exp_b \in {DictGet(expressions1, name)} |->
    With([item \in {IF Truthy(exp_a) /\ Truthy(exp_b)
                    THEN add_both(st, name, exp_a, exp_b)
                    ELSE add_one_sided(st, name,
                                       IF Truthy(exp_a) THEN exp_a ELSE exp_b)} |->
    With([asserted \in {IF name # "Normal" /\ ~Truthy(item.v)
                        THEN Raise(item.st, "AssertionError") ELSE item.st} |->
      add_shader_loop(asserted, Tail(all_keys), expressions, expressions1,
                      Append(add_expression, Ch(name, item.v)))])])])])])

\* reverse_expressions[field.links[0].from_socket], the aggregate it refers to
Memoized(st, field) ==
  IF Len(FieldOf(field).links) # 0
     /\ FieldOf(field).links[1] \in DOMAIN st.reverse_expressions
  THEN Deref(st, st.reverse_expressions[FieldOf(field).links[1]].v)
  ELSE <<>>

\* the event of a finished Add Shader or Mix Shader: the memoized aggregates
\* of the two operands when both were resolved (a) and on return (b)
Operands(socket, field_a, field_b, resolved, done) ==
  EvData(Ev("operands", field_a, socket, done.scope, done.scope,
            Len(resolved.exp_list), Len(done.exp_list), NoneV, NoneV, FALSE),
         <<Memoized(resolved, field_a), Memoized(resolved, field_b)>>,
         <<Memoized(done, field_a), Memoized(done, field_b)>>,
         <<field_a, field_b>>)

exp_add_shader(st, socket) ==
  With([node \in {NodeOf[socket[1]]} |->
  With([warned \in {report_warn(st, <<"'Add Shader' is only an approximation, as Unreal's deferred rendering doesn't support this workflow.">>, TRUE)} |->
  With([expressions \in {AssertTruthy(get_expression(warned,
                                                     <<node.id, node.inputs[1].name>>,
                                                     FALSE, FALSE))} |->
  With([expressions1 \in {AssertTruthy(get_expression(expressions.st,
                                                      <<node.id, node.inputs[2].name>>,
                                                      FALSE, FALSE))} |->
  With([dict_a \in {Deref(expressions1.st, expressions.v)} |->
  With([dict_b \in {Deref(expressions1.st, expressions1.v)} |->
  With([all_keys \in {SelectSeq(ChannelOrder,
                                LAMBDA name : name \in Keys(dict_a) \cup Keys(dict_b))} |->
  With([added \in {add_shader_loop(expressions1.st, all_keys, dict_a, dict_b, <<>>)} |->
    NewDict(Log(LogAlways(added.st,
                          EvData(Ev("add", <<>>, socket, st.scope, st.scope,
                                    Len(expressions1.st.exp_list),
                                    Len(added.st.exp_list),
                                    expressions.v, expressions1.v, ~Ok(added.st)),
                                 dict_a, dict_b, added.dict)),
                Operands(socket, <<node.id, node.inputs[1].name>>,
                         <<node.id, node.inputs[2].name>>, expressions1.st, added.st)),
            added.dict)])])])])])])])])

RECURSIVE mix_shader_loop(_, _, _, _, _)
mix_shader_loop(st, expressions, expressions1, i, fac_expression) ==
  IF ~Ok(st) \/ i > Len(Deref(st, expressions1)) THEN st
  ELSE
    With([name \in {Deref(st, expressions1)[i].n} |->
    With([exp \in {Deref(st, expressions1)[i].v} |->
    With([n \in {Push(st, XNode("LinearInterpolate", "", <<>>,
                                <<exp_input("0", DictGet(Deref(st, expressions), name)),
                                  exp_input("1", exp),
                                  exp_input("2", fac_expression)>>))} |->
    With([stored \in {IF HasKey(Deref(st, expressions), name)
                      THEN DictStore(n.st, expressions, name, Exp(n.v, 0))
                      ELSE DictStore(st, expressions, name, exp)} |->
      mix_shader_loop(stored, expressions, expressions1, i + 1, fac_expression)])])])])

\* an operand left as it came
keep_operand(st, expressions) == st

\* expressions["Opacity"] = {"expression": exp_scalar(1, exp_list)} where missing
FillOpacity(st, expressions) ==
  IF Ok(st) /\ ~HasKey(Deref(st, expressions), "Opacity")
  THEN With([one \in {ScalarExp(st, F(1000))} |->
         DictStore(one.st, expressions, "Opacity", one.v)])
  ELSE st

exp_mix_shader(st, socket) ==
  With([node \in {NodeOf[socket[1]]} |->
  With([warned \in {report_warn(st, <<"'Mix Shader' is only an approximation, as Unreal's deferred rendering doesn't support this workflow.">>, TRUE)} |->
  With([expressions \in {AssertTruthy(get_expression(warned,
                                                     <<node.id, node.inputs[2].name>>,
                                                     FALSE, FALSE))} |->
  With([expressions1 \in {AssertTruthy(get_expression(expressions.st,
                                                      <<node.id, node.inputs[3].name>>,
                                                      FALSE, FALSE))} |->
  With([s \in {expressions1.st} |->
  With([any_opacity \in {Ok(s) /\ (HasKey(Deref(s, expressions.v), "Opacity")
                                     \/ HasKey(Deref(s, expressions1.v), "Opacity"))} |->
  With([filled \in {IF any_opacity
                    THEN FillOpacity(FillOpacity(s, expressions.v), expressions1.v)
                    ELSE s} |->
  With([fac_expression \in {Resolve(filled, node, "Fac")} |->
  With([mixed \in {mix_shader_loop(fac_expression.st, expressions.v, expressions1.v, 1,
                                   fac_expression.v)} |->
    R(Log(Log(mixed,
              EvData(Ev("mix", <<>>, socket, st.scope, st.scope, Len(s.exp_list),
                        Len(mixed.exp_list), expressions.v, fac_expression.v, FALSE),
                     Deref(s, expressions.v), Deref(s, expressions1.v),
                     Deref(mixed, expressions.v))),
          Operands(socket, <<node.id, node.inputs[2].name>>,
                   <<node.id, node.inputs[3].name>>, s, mixed)),
      IF Ok(mixed) THEN expressions.v ELSE NoneV)])])])])])])])])])

(***************************************************************************)
(* Node groups.  A scope is one set of the three module dicts              *)
(* (group_context, reverse_expressions, cached_nodes) that exp_group swaps *)
(* in; st.scope names the set in effect (0: the material's own), and each  *)
(* cache entry records the scope that wrote it (by).                       *)
(***************************************************************************)
RECURSIVE capture_inputs(_, _, _, _, _)
capture_inputs(st, node, idx, new_context, id) ==
  IF idx > Len(node.inputs) THEN [st |-> st, ctx |-> new_context]
  ELSE
    With([input \in {node.inputs[idx]} |->
    With([value_has_links \in {Len(input.links) > 0} |->
    With([value_exp \in {get_expression(st, <<node.id, input.name>>, TRUE, FALSE)} |->
    With([logged \in {Log(value_exp.st,
                          Ev("capture", <<node.id, input.name>>, <<>>, id, st.scope,
                             Len(st.exp_list), Len(value_exp.st.exp_list), value_exp.v,
                             NoneV, value_has_links))} |->
      capture_inputs(logged, node, idx + 1,
                     MapPut(new_context, input.identifier,
                            [v |-> value_exp.v, has_links |-> value_has_links]),
                     id)])])])])

\* exp_group that keeps the caches of the caller for the inner graph
EnterScopeShared(st, new_context, id) ==
  IF Ok(st) THEN [st EXCEPT !.group_context = new_context, !.scope = id] ELSE st

\* group_context = new_context; reverse_expressions = {}; cached_nodes = {}
EnterScope(st, new_context, id) ==
  IF Ok(st)
  THEN [st EXCEPT !.group_context = new_context, !.reverse_expressions = EmptyMap,
                  !.cached_nodes = EmptyMap, !.scope = id]
  ELSE st

\* exp_group that does not put back the caller's reverse_expressions
LeaveScopeKeepReverse(st, previous) ==
  IF Ok(st)
  THEN [st EXCEPT !.group_context = previous.group_context,
                  !.cached_nodes = previous.cached_nodes, !.scope = previous.scope]
  ELSE st

\* group_context = previous_context; cached_nodes = ...; reverse_expressions = ...
LeaveScope(st, previous) ==
  IF Ok(st)
  THEN [st EXCEPT !.group_context = previous.group_context,
                  !.cached_nodes = previous.cached_nodes,
                  !.reverse_expressions = previous.reverse_expressions,
                  !.scope = previous.scope]
  ELSE st

\* the search for the active output node of the group's tree
GroupOutputOf(node_tree) ==
  With([outs \in {SelectSeq(TreeNodes(node_tree), LAMBDA n : n.type = "GROUP_OUTPUT")} |->
  With([active \in {SelectSeq(outs, LAMBDA n : n.is_active_output)} |->
    IF Len(active) > 0 THEN <<active[Len(active)]>>
    ELSE IF Len(outs) > 0 THEN <<outs[1]>> ELSE <<>>])])

\* the entries of the caches in effect that another scope wrote
Foreign(st) ==
  Cardinality({k \in DOMAIN st.reverse_expressions :
                 st.reverse_expressions[k].by # st.scope})
    + Cardinality({k \in DOMAIN st.cached_nodes : st.cached_nodes[k].by # st.scope})

SameDicts(st, previous) ==
  /\ st.scope = previous.scope
  /\ st.group_context = previous.group_context
  /\ st.cached_nodes = previous.cached_nodes
  /\ st.reverse_expressions = previous.reverse_expressions

exp_group(st, socket) ==
  IF ~Ok(st) THEN R(st, NoneV)
  ELSE
    With([node \in {NodeOf[socket[1]]} |->
    With([id \in {st.next_scope} |->
    With([captured \in {capture_inputs([st EXCEPT !.next_scope = @ + 1], node, 1,
                                       EmptyMap, id)} |->
    With([previous \in {captured.st} |->
    With([entered \in {EnterScope(previous, captured.ctx, id)} |->
    With([output_node \in {GroupOutputOf(node.node_tree)} |->
    With([found \in {IF Len(output_node) = 0 THEN Raise(entered, "AttributeError")
                     ELSE entered} |->
    With([matching \in {SelectSeq(IF Len(output_node) = 0 THEN <<>>
                                  ELSE output_node[1].inputs,
                                  LAMBDA input :
                                    input.identifier = SocketOf(socket).identifier)} |->
    With([asserted \in {IF Len(matching) = 0 THEN Raise(found, "AssertionError")
                        ELSE found} |->
    With([inner_exp \in {IF Len(matching) = 0 THEN R(asserted, NoneV)
                         ELSE get_expression(asserted,
                                             <<output_node[1].id,
                                               matching[Len(matching)].name>>,
                                             FALSE, FALSE)} |->
    With([left \in {LeaveScope(inner_exp.st, previous)} |->
      R(LogAlways(left,
                  Ev(IF Ok(left) THEN "group_return" ELSE "group_raise", <<>>, socket,
                     id, st.scope, Foreign(left), Len(left.exp_list), inner_exp.v, NoneV,
                     SameDicts(left, previous))),
        IF Ok(left) THEN inner_exp.v ELSE NoneV)])])])])])])])])])])])

exp_group_input(st, socket, target_socket) ==
  With([identifier \in {SocketOf(socket).identifier} |->
  With([target \in {FieldOf(target_socket)} |->
    IF identifier \notin DOMAIN st.group_context THEN R(Raise(st, "KeyError"), NoneV)
    ELSE With([outer_expression_data \in {st.group_context[identifier]} |->
           IF target.type = "VECTOR" /\ target.default_type = "bpy_prop_array"
                /\ ~outer_expression_data.has_links
           THEN R(st, NoneV)
           ELSE R(st, outer_expression_data.v)])])])

\* a fallback that gives up on the node
exp_unhandled_raise(st, socket) == R(Raise(st, "KeyError"), NoneV)

\* the fallback of get_expression_inner
exp_unhandled(st, socket) ==
  With([reported \in {report_error(st, <<"Node %s:%s not handled", NodeOf[socket[1]].type,
                                         SocketOf(socket).name>>, FALSE)} |->
  With([exp \in {exp_scalar_int(reported, 0)} |->
    R(exp.st, Exp(exp.v, 0))])])

\* get_expression_inner after its two cache lookups
translate(st, socket, target_socket) ==
  With([node \in {NodeOf[socket[1]]} |->
    CASE node.type = "GROUP" -> exp_group(st, socket)
      [] node.type = "GROUP_INPUT" -> exp_group_input(st, socket, target_socket)
      [] node.type = "REROUTE" -> Resolve(st, node, "Input")
      [] node.type \in BsdfTypes -> exp_bsdf(st, socket)
      [] node.type = "ADD_SHADER" -> exp_add_shader(st, socket)
      [] node.type = "MIX_SHADER" -> exp_mix_shader(st, socket)
      [] node.type \in HandledTypes -> node_handler(st, socket)
      [] OTHER -> exp_unhandled(st, socket)])

get_expression_inner(st, socket, target_socket) ==
  IF ~Ok(st) THEN R(st, NoneV)
  ELSE
    With([node_id \in {socket[1]} |->
    With([n0 \in {Len(st.exp_list)} |->
      IF socket \in DOMAIN st.reverse_expressions
      THEN With([entry \in {st.reverse_expressions[socket]} |->
             R(Log(st, Ev("hit", target_socket, socket, st.scope, entry.by, n0, n0,
                          entry.v, NoneV, FALSE)),
               entry.v)])
      ELSE IF node_id \in DOMAIN st.cached_nodes
      THEN With([cached_node \in {st.cached_nodes[node_id]} |->
           With([found \in {exp_from_cache(st, cached_node, SocketOf(socket).name)} |->
             R(LogAlways(found.st,
                         EvData(Ev("cached", target_socket, socket, st.scope,
                                   cached_node.by, n0, Len(found.st.exp_list), found.v,
                                   NoneV, ~Ok(found.st)),
                                cached_node.names, <<>>, <<>>)),
               found.v)])])
      ELSE With([r \in {translate(st, socket, target_socket)} |->
             R(LogAlways(r.st, Ev("translate", target_socket, socket, st.scope, st.scope,
                                  n0, Len(r.st.exp_list), r.v, NoneV, ~Ok(r.st))),
               IF Ok(r.st) THEN r.v ELSE NoneV)])])])

\* the RGBA default as it is, whatever the context
default_color_plain(st, default_value) == default_value

\* the RGBA default, remapped to [-1, 1] under the Normal context
default_color(st, default_value) ==
  IF get_context(st) = MAT_CTX_NORMAL
  THEN <<default_value[1] * 2 - F(1000), default_value[2] * 2 - F(1000),
         default_value[3] * 2 - F(1000), default_value[4]>>
  ELSE default_value

\* a default that is the scalar 0 whatever the socket type
get_default_zero(st, field, force_default, skip_default_warn) == ScalarExp(st, F(0))

\* the unlinked branch of get_expression: the default by socket type
get_default(st, field, force_default, skip_default_warn) ==
  With([f \in {FieldOf(field)} |->
    CASE f.type = "VALUE" -> ScalarExp(st, f.default_value[1])
      [] f.type = "RGBA" ->
           With([exp \in {exp_color(st, default_color(st, f.default_value), "")} |->
             R(Log(exp.st,
                   EvData(Ev("default", field, <<>>, st.scope, st.scope, Len(st.exp_list),
                             Len(exp.st.exp_list), Exp(exp.v, 0), NoneV, FALSE),
                          f.default_value, <<>>, <<>>)),
               Exp(exp.v, 0))])
      [] f.type = "VECTOR" ->
           IF force_default \/ f.default_type \in {"Vector", "Euler"}
           THEN With([exp \in {exp_vector(st, f.default_value)} |->
                  R(exp.st, Exp(exp.v, 0))])
           ELSE R(IF skip_default_warn THEN st
                  ELSE LogLine(st, "warn",
                               <<"Node %s (%s) field %s (%s) has no links, and no default value.",
                                 field>>),
                  NoneV)
      [] f.type = "SHADER" ->
           With([base \in {ScalarExp(st, F(0))} |->
           With([roughness \in {ScalarExp(base.st, F(1000))} |->
             NewDict(roughness.st,
                     <<Ch("BaseColor", base.v), Ch("Roughness", roughness.v)>>)])])
      [] OTHER -> R(IF skip_default_warn THEN st
                    ELSE LogLine(st, "warn",
                                 <<"Node %s (%s) field %s (%s) has no links, and no default value.",
                                   field>>),
                    NoneV)])

\* {"expression": exp_list.push(n)}
Wrap(n) == R(n.st, Exp(n.v, 0))

\* a conversion that averages a Color by DotProduct as it does a Vector
coerce_by_dot(st, field, return_exp) ==
  IF ~Truthy(return_exp) \/ ~Ok(st) THEN R(st, return_exp)
  ELSE IF FieldOf(field).type = "VALUE"
            /\ SocketOf(FieldOf(field).links[1]).type \in {"RGBA", "VECTOR"}
  THEN With([exp_1 \in {exp_vector(st, <<3333330, 3333330, 3333330>>)} |->
         Wrap(Push(exp_1.st,
                   XNode("DotProduct", "", <<>>,
                         <<exp_input("0", return_exp),
                           exp_input_slot("1", exp_1.v, 0)>>)))])
  ELSE R(st, return_exp)

\* the conversions between socket types at the end of get_expression
coerce(st, field, return_exp) ==
  IF ~Truthy(return_exp) \/ ~Ok(st) THEN R(st, return_exp)
  ELSE
    With([f \in {FieldOf(field)} |->
    With([other_output \in {SocketOf(f.links[1])} |->
      CASE f.type = "VALUE" /\ other_output.type = "RGBA" ->
             Wrap(Push(st, XNode("FunctionCall", MAT_FUNC_RGB_TO_BW, <<>>,
                                push_exp_input(<<>>, "0", return_exp))))
        [] f.type = "VALUE" /\ other_output.type = "VECTOR" ->
             With([exp_1 \in {exp_vector(st, <<3333330, 3333330, 3333330>>)} |->
               Wrap(Push(exp_1.st,
                         XNode("DotProduct", "", <<>>,
                               <<exp_input("0", return_exp),
                                 exp_input_slot("1", exp_1.v, 0)>>)))])
        [] f.type = "VECTOR" /\ other_output.type = "RGBA" ->
             Wrap(Push(st, XNode("ComponentMask", "RGB", <<>>,
                                push_exp_input(<<>>, "0", return_exp))))
        [] f.type = "RGBA" /\ other_output.type = "VECTOR" ->
             With([alpha \in {exp_scalar_int(st, 1)} |->
               Wrap(Push(alpha.st,
                         XNode("AppendVector", "", <<>>,
                               Append(push_exp_input(<<>>, "0", return_exp),
                                      exp_input_slot("1", alpha.v, 0)))))])
        [] f.type = "RGBA" /\ other_output.type = "VALUE" ->
             Wrap(Push(st, XNode("FunctionCall", MAT_FUNC_COMBINE_RGB, <<>>,
                                <<exp_input("0", return_exp), exp_input("1", return_exp),
                                  exp_input("2", return_exp)>>)))
        [] f.type = "SHADER" /\ other_output.type # "SHADER" ->
             With([exp_base_color \in {exp_color(st, <<F(0), F(0), F(0), F(1000)>>, "")} |->
               NewDict(exp_base_color.st,
                       <<Ch("BaseColor", Exp(exp_base_color.v, 0)),
                         Ch("EmissiveColor", return_exp)>>)])
        [] OTHER -> R(st, return_exp)])])

\* get_expression that forgets what it resolved
memoize_nothing(st, socket, return_exp) == st

\* reverse_expressions[socket] = return_exp
memoize(st, socket, return_exp) ==
  IF Ok(st)
  THEN [st EXCEPT !.reverse_expressions =
          MapPut(@, socket, [v |-> return_exp, by |-> st.scope])]
  ELSE st

\* the event of a get_expression that took the unlinked branch
Unlinked(st, exp, field, force_default) ==
  EvData(Ev("unlinked", field, <<>>, st.scope, st.scope, Len(st.exp_list),
            Len(exp.st.exp_list), exp.v, NoneV, force_default),
         FieldOf(field).default_value, <<>>, Deref(exp.st, exp.v))

get_expression(st, field, force_default, skip_default_warn) ==
  IF ~Ok(st) THEN R(st, NoneV)
  ELSE
    With([f \in {FieldOf(field)} |->
      IF Len(f.links) = 0
      THEN With([exp \in {get_default(st, field, force_default, skip_default_warn)} |->
             R(Log(exp.st, Unlinked(st, exp, field, force_default)), exp.v)])
      ELSE IF ~SocketOf(f.links[1]).enabled
      THEN With([exp \in {get_default(st, field, force_default, skip_default_warn)} |->
             R(Log(Log(exp.st, Unlinked(st, exp, field, force_default)),
                   Ev("get", field, f.links[1], st.scope, st.scope, Len(st.exp_list),
                      Len(exp.st.exp_list), exp.v, exp.v, TRUE)),
               exp.v)])
      ELSE
        With([socket \in {f.links[1]} |->
        With([inner \in {get_expression_inner(st, socket, field)} |->
        With([memo \in {memoize(inner.st, socket, inner.v)} |->
        With([return_exp \in {coerce(memo, field, inner.v)} |->
          R(Log(return_exp.st,
                Ev("get", field, socket, st.scope, st.scope, Len(st.exp_list),
                   Len(return_exp.st.exp_list), return_exp.v, inner.v, FALSE)),
            IF Ok(return_exp.st) THEN return_exp.v ELSE NoneV)])])])])])

(***************************************************************************)
(* Materials.  A material record is the UEPbrMaterial node: its name, its  *)
(* Expressions child (absent: <<>>) and its other children in push order.  *)
(***************************************************************************)
UEPbrMaterial(name, expressions, children) ==
  [name |-> name, expressions |-> expressions, children |-> children]

Child(tag, e, o) == [n |-> tag, e |-> e, o |-> o]

exp_output(output_id, expression) ==
  CASE expression.k = "none" -> Child(output_id, -1, 0)
    [] expression.k = "exp" -> Child(output_id, expression.e, expression.o)
    [] expression.k = "bsdf" -> Child(output_id, BadInput, 0)

DefaultMaterialName ==
  <<"D", "e", "f", "a", "u", "l", "t", "M", "a", "t", "e", "r", "i", "a", "l">>

\* the per-material locals: a new Expressions node, no aggregates, no error
Fresh(st) ==
  [st EXCEPT !.exp_list = <<>>, !.heap = <<>>, !.err = "", !.trace = <<>>, !.log = <<>>]

M(st, n) == [st |-> st, n |-> n]

pbr_default_material(st) ==
  With([grey \in {9063320} |->
  With([basecolor_idx \in {exp_color(st, <<grey, grey, grey, F(1000)>>, "")} |->
  With([roughness_idx \in {exp_scalar(basecolor_idx.st, F(400))} |->
    M(roughness_idx.st,
      UEPbrMaterial(DefaultMaterialName, <<roughness_idx.st.exp_list>>,
                    <<Child("BaseColor", basecolor_idx.v, 0),
                      Child("Roughness", roughness_idx.v, 0)>>))])])])

pbr_basic_material(st, material) ==
  With([basecolor_idx \in {exp_color(st, material.diffuse_color, "")} |->
  With([roughness_idx \in {exp_scalar(basecolor_idx.st, material.roughness)} |->
  With([metallic_idx \in {exp_scalar(roughness_idx.st, material.metallic)} |->
  With([specular_idx \in {exp_scalar(metallic_idx.st, material.specular_intensity)} |->
    M(specular_idx.st,
      UEPbrMaterial(sanitize_name(material.name), <<specular_idx.st.exp_list>>,
                    <<Child("BaseColor", basecolor_idx.v, 0),
                      Child("Roughness", roughness_idx.v, 0),
                      Child("Metallic", metallic_idx.v, 0),
                      Child("Specular", specular_idx.v, 0)>>))])])])])

\* node_tree.get_output_node(...)
OutputNodeOf(node_tree) ==
  SelectSeq(TreeNodes(node_tree), LAMBDA n : n.type = "OUTPUT_MATERIAL")

\* the loop over whitelisted_textures: state and first_passthrough_exp
RECURSIVE passthrough_loop(_, _, _, _)
passthrough_loop(st, i, first_passthrough_exp, last_passthrough) ==
  IF ~Ok(st) \/ i > Len(st.whitelisted_textures) THEN R(st, first_passthrough_exp)
  ELSE
    With([tex \in {st.whitelisted_textures[i]} |->
    With([passthrough_exp \in {Push(st, XNode("FunctionCall", MAT_FUNC_PASSTHROUGH,
                                              <<>>, <<>>))} |->
    With([linked \in {IF last_passthrough >= 0
                      THEN [passthrough_exp.st EXCEPT
                              !.exp_list[last_passthrough + 1].ins =
                                Append(@, exp_input_slot("1", passthrough_exp.v, 0))]
                      ELSE passthrough_exp.st} |->
    With([own \in {[linked EXCEPT !.exp_list[passthrough_exp.v + 1].ins =
                      push_exp_input(@, "0", tex)]} |->
      passthrough_loop(own, i + 1,
                       IF first_passthrough_exp <= 0 THEN passthrough_exp.v
                       ELSE first_passthrough_exp,
                       passthrough_exp.v)])])])])

\* the material when nothing was resolved: what the first use of None raises
NoneError(blend_method) ==
  IF blend_method \in {"CLIP", "HASHED", "BLEND"} THEN "AttributeError" ELSE "TypeError"

\* the Passthrough chain hooked into BaseColor
main_passthrough(st, expressions, first_passthrough_exp) ==
  IF first_passthrough_exp > 0 /\ Ok(st)
  THEN IF ~HasKey(Deref(st, expressions), "BaseColor")
       THEN Raise(st, "KeyError")
       ELSE With([n \in {Push(st,
                              XNode("FunctionCall", MAT_FUNC_PASSTHROUGH, <<>>,
                                    Append(push_exp_input(<<>>, "0",
                                             DictGet(Deref(st, expressions), "BaseColor")),
                                           exp_input_slot("1", first_passthrough_exp,
                                                          0))))} |->
              DictStore(n.st, expressions, "BaseColor", Exp(n.v, 0))])
  ELSE st

\* the dithered opacity of a HASHED material
hashed_alpha(st, expressions, blend_method) ==
  With([alpha_exp \in {DictGet(Deref(st, expressions), "Opacity")} |->
    IF blend_method = "HASHED" /\ Truthy(alpha_exp) /\ Ok(st)
    THEN With([new_alpha_exp \in
                 {Push(st, XNode("FunctionCall",
                                 "/Engine/Functions/Engine_MaterialFunctions02/Utility/DitherTemporalAA",
                                 <<>>, push_exp_input(<<>>, "0", alpha_exp)))} |->
           DictStore(new_alpha_exp.st, expressions, "Opacity", Exp(new_alpha_exp.v, 0))])
    ELSE st])

\* the Blendmode and OpacityMaskClipValue children
blend_children(material) ==
  CASE material.blend_method = "CLIP" ->
         <<Child("Blendmode", 1, 0),
           Child("OpacityMaskClipValue",
                 Fmt6(IF material.alpha_threshold > F(10)
                      THEN material.alpha_threshold ELSE F(10)), 0)>>
    [] material.blend_method = "HASHED" ->
         <<Child("Blendmode", 1, 0), Child("OpacityMaskClipValue", Fmt6(F(500)), 0)>>
    [] material.blend_method = "BLEND" -> <<Child("Blendmode", 2, 0)>>
    [] OTHER -> <<>>

\* pbr_nodetree_material from the post-pass on: expressions is the aggregate
finish_material(st, material, expressions, config_always_twosided) ==
  With([passed \in {passthrough_loop(st, 1, -1, -1)} |->
  With([main \in {main_passthrough(passed.st, expressions, passed.v)} |->
  With([hashed \in {hashed_alpha(main, expressions, material.blend_method)} |->
  With([dict \in {Deref(hashed, expressions)} |->
  With([can_be_twosided \in {material.blend_method \in {"CLIP", "HASHED", "BLEND"}
                               \/ ~HasKey(dict, "Opacity")} |->
  With([outputs \in {[i \in 1..Len(dict) |-> exp_output(dict[i].n, dict[i].v)]} |->
  With([checked \in {IF \E i \in 1..Len(outputs) : outputs[i].e = BadInput
                     THEN Raise(hashed, "KeyError") ELSE hashed} |->
  With([shading \in {IF HasKey(dict, "ClearCoat")
                     THEN <<Child("ShadingModel:ClearCoat", 0, 0)>> ELSE <<>>} |->
  With([hint \in {(hashed.material_hint_twosided
                      \/ (config_always_twosided /\ can_be_twosided))
                    /\ ~material.use_backface_culling} |->
  With([final \in {IF Ok(checked) THEN [checked EXCEPT !.material_hint_twosided = hint]
                   ELSE checked} |->
    M(final,
      UEPbrMaterial(sanitize_name(material.name), <<final.exp_list>>,
                    blend_children(material) \o outputs \o shading
                      \o (IF hint THEN <<Child("TwoSided", 1, 0)>>
                          ELSE <<>>)))])])])])])])])])])])

\* the working state a compile finds when it starts to resolve its graph
begin_compile(st) ==
  LogAlways(st,
            EvData(Ev("begin", <<>>, <<>>, st.scope, st.scope, Len(st.exp_list),
                      Len(st.exp_list), NoneV, NoneV, FALSE),
                   DOMAIN st.cached_nodes, DOMAIN st.reverse_expressions,
                   DOMAIN st.group_context))

\* the transparent material written for a volume-only node tree
volume_material(st) ==
  With([warned \in {report_warn(st, <<"Material %s has volume nodes, which are unsupported. Writing transparent material.">>, TRUE)} |->
  With([base \in {exp_vector(warned, <<F(0), F(0), F(0)>>)} |->
  With([refraction \in {ScalarExp(base.st, F(1000))} |->
  With([opacity \in {ScalarExp(refraction.st, F(0))} |->
    NewDict([opacity.st EXCEPT !.whitelisted_textures = <<>>],
            <<Ch("BaseColor", Exp(base.v, 0)), Ch("Refraction", refraction.v),
              Ch("Opacity", opacity.v)>>)])])])])

pbr_nodetree_material(st, material, config_always_twosided) ==
  With([reset \in {[st EXCEPT !.cached_nodes = EmptyMap, !.scope = 0,
                              !.next_scope = 1]} |->
  With([output_node \in {OutputNodeOf(material.node_tree)} |->
    IF Len(output_node) = 0
    THEN M(report_warn(reset, <<"Material %s with use_nodes does not have nodes">>, TRUE),
           UEPbrMaterial(sanitize_name(material.name), <<>>, <<>>))
    ELSE
      With([cleared \in {[reset EXCEPT !.material_hint_twosided = FALSE]} |->
      With([surface_field \in {FieldOf(InputRef(output_node[1], "Surface"))} |->
      With([volume_field \in {FieldOf(InputRef(output_node[1], "Volume"))} |->
      With([expressions \in
              {IF Len(volume_field.links) # 0 /\ Len(surface_field.links) = 0
               THEN volume_material(begin_compile(cleared))
               ELSE get_expression(begin_compile([cleared EXCEPT
                                                    !.whitelisted_textures = <<>>,
                                                    !.reverse_expressions = EmptyMap]),
                                   InputRef(output_node[1], "Surface"),
                                   FALSE, FALSE)} |->
        IF Ok(expressions.st) /\ ~Truthy(expressions.v)
        THEN M(Raise(expressions.st, NoneError(material.blend_method)),
               UEPbrMaterial(sanitize_name(material.name), <<>>, <<>>))
        ELSE finish_material(expressions.st, material, expressions.v,
                             config_always_twosided)])])])])])])

collect_pbr_material(st, mat_with_owner, config_always_twosided) ==
  With([material \in {MaterialOf[mat_with_owner]} |->
  With([reset \in {[Fresh(st) EXCEPT !.reported_errors = {}, !.reported_warns = {}]} |->
    CASE material.kind = "none" -> pbr_default_material(reset)
      [] material.kind = "basic" -> pbr_basic_material(reset, material)
      [] OTHER -> pbr_nodetree_material(reset, material, config_always_twosided)])])

(***************************************************************************)
(* The exporter as a state machine.  The module globals of                 *)
(* export_material.py live as long as the add-on is loaded: a run of       *)
(* collect_all_materials starts from whatever the run before left in them. *)
(* phase is the position of the run: "idle" (module loaded), "collecting"  *)
(* (inside the list comprehension), "returned", or "raised" (an exception  *)
(* left collect_all_materials).                                            *)
(***************************************************************************)
VARIABLES phase, runs, unique_materials, textures_dict, config_always_twosided,
          material_nodes, returned, material_curves, material_curves_count, tex_dict,
          reported_errors, reported_warns, cached_nodes, reverse_expressions,
          group_context, context_stack, whitelisted_textures, material_hint_twosided,
          curves_image, trace, log, err, claims, ref, last_exp_list, given_name,
          sanitized

vars == <<phase, runs, unique_materials, textures_dict, config_always_twosided,
          material_nodes, returned, material_curves, material_curves_count, tex_dict,
          reported_errors, reported_warns, cached_nodes, reverse_expressions,
          group_context, context_stack, whitelisted_textures, material_hint_twosided,
          curves_image, trace, log, err, claims, ref, last_exp_list, given_name,
          sanitized>>

\* the number of export runs a behaviour makes
MaxRuns == 3
\* the number of rows one run of the curve baker claims
MaxClaims == 1026

\* a registry that already holds the wood image, collected as a linear texture
WoodRegistry ==
  <<[name |-> sanitize_name(WoodImage), image |-> WoodImage, type_hint |-> "LINEAR"]>>

RunInput(mats, two, tex) == [mats |-> mats, two |-> two, tex |-> tex]

\* the arguments of the runs
RunInputs ==
  {RunInput(mats, FALSE, <<>>) : mats \in MaterialLists}
    \cup {RunInput(<<"Plain">>, TRUE, <<>>),
          RunInput(<<"Volume", "Empty", "Basic", "None">>, TRUE, <<>>),
          RunInput(<<"TexTexA", "TexTexB">>, FALSE, WoodRegistry)}

\* the module globals as the compile state of the next material
Globals ==
  [exp_list |-> <<>>, heap |-> <<>>, err |-> "", trace |-> <<>>, log |-> <<>>,
   scope |-> 0, next_scope |-> 1,
   material_curves |-> material_curves, material_curves_count |-> material_curves_count,
   tex_dict |-> tex_dict, reported_errors |-> reported_errors,
   reported_warns |-> reported_warns, cached_nodes |-> cached_nodes,
   reverse_expressions |-> reverse_expressions, group_context |-> group_context,
   context_stack |-> context_stack, whitelisted_textures |-> whitelisted_textures,
   material_hint_twosided |-> material_hint_twosided]

\* the module globals a compile leaves
SetGlobals(st) ==
  /\ material_curves' = st.material_curves
  /\ material_curves_count' = st.material_curves_count
  /\ tex_dict' = st.tex_dict
  /\ reported_errors' = st.reported_errors
  /\ reported_warns' = st.reported_warns
  /\ cached_nodes' = st.cached_nodes
  /\ reverse_expressions' = st.reverse_expressions
  /\ group_context' = st.group_context
  /\ context_stack' = st.context_stack
  /\ whitelisted_textures' = st.whitelisted_textures
  /\ material_hint_twosided' = st.material_hint_twosided
  /\ trace' = st.trace
  /\ log' = st.log
  /\ err' = st.err
  /\ last_exp_list' = st.exp_list

Init ==
  /\ phase = "idle"
  /\ runs = 0
  /\ unique_materials = <<>>
  /\ textures_dict = <<>>
  /\ config_always_twosided = FALSE
  /\ material_nodes = <<>>
  /\ returned = <<>>
  /\ material_curves = EmptyMap
  /\ material_curves_count = 0
  /\ tex_dict = <<>>
  /\ reported_errors = {}
  /\ reported_warns = {}
  /\ cached_nodes = EmptyMap
  /\ reverse_expressions = EmptyMap
  /\ group_context = EmptyMap
  /\ context_stack = <<>>
  /\ whitelisted_textures = <<>>
  /\ material_hint_twosided = FALSE
  /\ curves_image = [exists |-> FALSE, pixels |-> EmptyMap, writes |-> 0]
  /\ trace = <<>>
  /\ log = <<>>
  /\ err = ""
  /\ claims = <<>>
  /\ ref = <<>>
  /\ last_exp_list = <<>>
  /\ given_name = <<>>
  /\ sanitized = <<>>

\* collect_all_materials up to its list comprehension
CollectAllMaterials ==
  /\ UNCHANGED <<given_name, sanitized>>
  /\ phase \in {"idle", "returned", "raised"}
  /\ runs < MaxRuns
  /\ \E input \in RunInputs :
       /\ unique_materials' = input.mats
       /\ textures_dict' = input.tex
       /\ config_always_twosided' = input.two
       /\ tex_dict' = input.tex
  /\ phase' = "collecting"
  /\ runs' = runs + 1
  /\ material_curves' = EmptyMap
  /\ material_curves_count' = 0
  /\ material_nodes' = <<>>
  /\ returned' = <<>>
  /\ curves_image' = [curves_image EXCEPT !.writes = 0]
  /\ claims' = <<>>
  /\ UNCHANGED <<reported_errors, reported_warns, cached_nodes, reverse_expressions,
                 group_context, context_stack, whitelisted_textures,
                 material_hint_twosided, trace, log, err, ref, last_exp_list>>

\* the curve events of a compile: the rows it claimed
CurveRows(events) ==
  With([curves \in {SelectSeq(events, LAMBDA e : e.ev = "curve")} |->
    [i \in 1..Len(curves) |-> [k |-> curves[i].n0, row |-> curves[i].n1]]])

\* one element of the list comprehension: collect_pbr_material(mat, ...)
CollectPbrMaterial ==
  /\ UNCHANGED <<given_name, sanitized>>
  /\ phase = "collecting"
  /\ Len(material_nodes) < Len(unique_materials)
  /\ \E r \in {collect_pbr_material(Globals, unique_materials[Len(material_nodes) + 1],
                                     config_always_twosided)} :
         /\ SetGlobals(r.st)
         /\ claims' = claims \o CurveRows(r.st.trace)
         /\ IF Ok(r.st)
            THEN material_nodes' = Append(material_nodes, r.n) /\ phase' = "collecting"
            ELSE material_nodes' = material_nodes /\ phase' = "raised"
  /\ UNCHANGED <<runs, unique_materials, textures_dict, config_always_twosided, returned,
                 curves_image, ref>>

\* collect_all_materials after the list comprehension: the atlas and the return
ReturnMaterials ==
  /\ UNCHANGED <<given_name, sanitized>>
  /\ phase = "collecting"
  /\ Len(material_nodes) = Len(unique_materials)
  /\ IF material_curves_count # 0
     THEN /\ curves_image' = [exists |-> TRUE, pixels |-> material_curves,
                              writes |-> curves_image.writes + 1]
          /\ tex_dict' = get_texture_name(Globals, BlenderCurvesImage, "SRGB").st.tex_dict
     ELSE UNCHANGED <<curves_image, tex_dict>>
  /\ phase' = "returned"
  /\ returned' = material_nodes
  /\ ref' = IF ref = <<>>
            THEN <<[input |-> RunInput(unique_materials, config_always_twosided, textures_dict),
                    nodes |-> material_nodes]>>
            ELSE ref
  /\ UNCHANGED <<runs, unique_materials, textures_dict, config_always_twosided,
                 material_nodes, material_curves, material_curves_count, reported_errors,
                 reported_warns, cached_nodes, reverse_expressions, group_context,
                 context_stack, whitelisted_textures, material_hint_twosided, trace, log,
                 err, claims, last_exp_list>>

Next == CollectAllMaterials \/ CollectPbrMaterial \/ ReturnMaterials

Spec == Init /\ [][Next]_vars

(***************************************************************************)
(* The curve baker on its own: a run in which the materials reach ramp and *)
(* curve nodes, a batch of them per compile.                               *)
(***************************************************************************)
\* the ramp and curve nodes of the library
CurveNodes == <<"ramp2.ramp", "curve.crv">>

\* how many ramp or curve nodes one compile may reach
ClaimBatches == {1, 16}

RECURSIVE bake(_, _)
bake(st, n) ==
  IF n = 0 THEN st
  ELSE With([r \in {add_material_curve(st, CurveNodes[(st.material_curves_count % 2) + 1])} |->
         bake(r.st, n - 1)])

\* collect_all_materials up to its list comprehension, the atlas only
BeginBake ==
  /\ UNCHANGED <<given_name, sanitized>>
  /\ phase \in {"idle", "baking"}
  /\ runs < MaxRuns
  /\ phase' = "baking"
  /\ runs' = runs + 1
  /\ material_curves' = EmptyMap
  /\ material_curves_count' = 0
  /\ claims' = <<>>
  /\ UNCHANGED <<unique_materials, textures_dict, config_always_twosided, material_nodes,
                 returned, tex_dict, reported_errors, reported_warns, cached_nodes,
                 reverse_expressions, group_context, context_stack, whitelisted_textures,
                 material_hint_twosided, curves_image, trace, log, err, ref,
                 last_exp_list>>

\* the calls of add_material_curve of one compile
AddMaterialCurves ==
  /\ UNCHANGED <<given_name, sanitized>>
  /\ phase = "baking"
  /\ \E n \in ClaimBatches :
       /\ material_curves_count + n <= MaxClaims
       /\ \E st \in {bake(Globals, n)} :
            /\ SetGlobals(st)
            /\ claims' = claims \o CurveRows(st.trace)
  /\ UNCHANGED <<phase, runs, unique_materials, textures_dict, config_always_twosided,
                 material_nodes, returned, curves_image, ref>>

NextCurve == BeginBake \/ AddMaterialCurves

SpecCurve == Init /\ [][NextCurve]_vars

(***************************************************************************)
(* sanitize_name on its own: a name drawn from the non-empty names over a  *)
(* small alphabet, then sanitized.                                         *)
(***************************************************************************)
\* the longest name drawn
MaxNameLen == 3

\* a letter, a digit, the underscore and three forbidden characters
NameChars == {"a", "0", "_", " ", ".", "="}

Names == UNION {[1..n -> NameChars] : n \in 1..MaxNameLen}

InitSanitize ==
  /\ phase = "named"
  /\ runs = 0
  /\ unique_materials = <<>>
  /\ textures_dict = <<>>
  /\ config_always_twosided = FALSE
  /\ material_nodes = <<>>
  /\ returned = <<>>
  /\ material_curves = EmptyMap
  /\ material_curves_count = 0
  /\ tex_dict = <<>>
  /\ reported_errors = {}
  /\ reported_warns = {}
  /\ cached_nodes = EmptyMap
  /\ reverse_expressions = EmptyMap
  /\ group_context = EmptyMap
  /\ context_stack = <<>>
  /\ whitelisted_textures = <<>>
  /\ material_hint_twosided = FALSE
  /\ curves_image = [exists |-> FALSE, pixels |-> EmptyMap, writes |-> 0]
  /\ trace = <<>>
  /\ log = <<>>
  /\ err = ""
  /\ claims = <<>>
  /\ ref = <<>>
  /\ last_exp_list = <<>>
  /\ given_name \in Names
  /\ sanitized = <<>>

\* sanitize_name(name)
SanitizeName ==
  /\ phase = "named"
  /\ sanitized' = sanitize_name(given_name)
  /\ phase' = "sanitized"
  /\ UNCHANGED <<runs, unique_materials, textures_dict, config_always_twosided,
                 material_nodes, returned, material_curves, material_curves_count,
                 tex_dict, reported_errors, reported_warns, cached_nodes,
                 reverse_expressions, group_context, context_stack, whitelisted_textures,
                 material_hint_twosided, curves_image, trace, log, err, claims, ref,
                 last_exp_list, given_name>>

NextSanitize == SanitizeName

SpecSanitize == InitSanitize /\ [][NextSanitize]_vars

(***************************************************************************)
(* Properties.  trace is the history of the last compile: one "get" per    *)
(* get_expression on a linked input (v: what it returned, w: what the      *)
(* resolver gave for the socket, flag: the socket was disabled), one       *)
(* "translate", "hit" or "cached" per get_expression_inner, one "capture"  *)
(* per captured group input, one "group_return" or "group_raise" per       *)
(* exp_group and one "curve" per claimed row.                              *)
(***************************************************************************)
TraceIdx == 1..Len(trace)

IsGet(i) == trace[i].ev = "get"

SameSocket(i, j) == trace[i].socket = trace[j].socket /\ trace[i].scope = trace[j].scope

\* the first get_expression of the scope on an input linked to its socket
FirstGet(i) == IsGet(i) /\ \A h \in 1..(i - 1) : ~(IsGet(h) /\ SameSocket(h, i))

\* a later get_expression on an input of the socket's own type
LaterGet(i, j) ==
  /\ i < j
  /\ IsGet(j)
  /\ SameSocket(i, j)
  /\ FieldOf(trace[j].field).type = SocketOf(trace[j].socket).type

\* how often the translator ran for the socket of event i in its scope
Translations(i) ==
  Cardinality({h \in TraceIdx : trace[h].ev = "translate" /\ SameSocket(h, i)})

\* C1 as stated: within one compile and scope, every later get_expression on
\* an input of the type of S returns what the first get_expression on an input
\* linked to S returned, appends nothing, and the translator ran once.
C1_SameAsFirstCall ==
  \A i, j \in TraceIdx :
    FirstGet(i) /\ LaterGet(i, j) =>
      /\ trace[j].v = trace[i].v
      /\ trace[j].n1 = trace[j].n0
      /\ Translations(i) <= 1

\* C1 amended: for an enabled S, every later get_expression on an input of the
\* type of S returns the expression the first call memoized for S (what the
\* translator gave, before any conversion to the first input's type) and
\* appends nothing; the translator does not run again for S; when the first
\* input has the type of S too, both calls return the same reference.
C1_SameAsMemoized ==
  \A i, j \in TraceIdx :
    FirstGet(i) /\ LaterGet(i, j) /\ ~trace[j].flag =>
      /\ trace[j].v = trace[i].w
      /\ trace[j].n1 = trace[j].n0
      /\ Translations(i) <= 1
      /\ (FieldOf(trace[i].field).type = SocketOf(trace[i].socket).type
            => trace[j].v = trace[i].v)

\* a compile in which the first consumer of S got a converted expression and a
\* later consumer of the type of S resolved S again
C1_Witness ==
  \E i, j \in TraceIdx :
    /\ FirstGet(i) /\ LaterGet(i, j) /\ ~trace[j].flag
    /\ trace[i].v # trace[i].w
    /\ trace[j].v.k = "exp"

\* the Expression Lists of the material records of a run
ExpLists(nodes) == [i \in 1..Len(nodes) |-> nodes[i].expressions]

\* C2: a run that returns gives every material the Expression List that the
\* first returned run of the same list, graphs and registry gave it.
C2_SameExpressionLists ==
  (phase = "returned" /\ ref # <<>>
     /\ ref[1].input = RunInput(unique_materials, config_always_twosided, textures_dict))
    => ExpLists(returned) = ExpLists(ref[1].nodes)

IsGroupExit(i) == trace[i].ev \in {"group_return", "group_raise"}

\* C3: when exp_group is left, by return or by an error, the three dicts in
\* effect are the ones in effect before the call.
C3_ScopeRestored == \A i \in TraceIdx : IsGroupExit(i) => trace[i].flag

\* C4: an inner resolve only hits cache entries written in its own scope, and
\* when exp_group returns no entry of the caches in effect was written by
\* another scope.
C4_CachesIsolated ==
  \A i \in TraceIdx :
    /\ trace[i].ev \in {"hit", "cached"} => trace[i].by = trace[i].scope
    /\ trace[i].ev = "group_return" => trace[i].n0 = 0

\* a compile that resolved the same inner socket in two inlinings, hit a
\* cache inside a group and returned from a nested group
C4_Witness ==
  /\ \E i, j \in TraceIdx :
       /\ trace[i].ev = "translate" /\ trace[j].ev = "translate"
       /\ trace[i].socket = trace[j].socket /\ trace[i].scope # trace[j].scope
  /\ \E i \in TraceIdx : trace[i].ev = "group_return" /\ trace[i].by > 0
  /\ err = ""

\* the capture of the outer input behind the Group-Input socket of a get
CaptureOf(j) ==
  {c \in TraceIdx :
     /\ trace[c].ev = "capture"
     /\ trace[c].scope = trace[j].scope
     /\ FieldOf(trace[c].field).identifier = SocketOf(trace[j].socket).identifier}

\* an inner Vector input with a procedural default, linked to a Group Input
ProceduralFromGroupInput(j) ==
  /\ IsGet(j)
  /\ NodeOf[trace[j].socket[1]].type = "GROUP_INPUT"
  /\ FieldOf(trace[j].field).type = "VECTOR"
  /\ FieldOf(trace[j].field).default_type = "bpy_prop_array"

\* C5: such a resolve yields None whenever the outer input is unlinked.
C5_NoneWhenOuterUnlinked ==
  \A j \in TraceIdx :
    (ProceduralFromGroupInput(j) /\ \E c \in CaptureOf(j) : ~trace[c].flag)
      => trace[j].v = NoneV

\* the indices of the constants captured for the unlinked inputs of the groups
Captured ==
  UNION {trace[c].n0..(trace[c].n1 - 1) :
           c \in {h \in TraceIdx : trace[h].ev = "capture" /\ ~trace[h].flag}}

\* an index of the Expression List once the captured constants are taken out
Renumber(e) == IF e < 0 THEN e ELSE e - Cardinality({x \in Captured : x < e})

RenumberInputs(ins) == [i \in 1..Len(ins) |-> [ins[i] EXCEPT !.e = Renumber(@)]]

\* the Expression List without the captured constants
StripCaptured(exp_list) ==
  LET kept == {x \in 0..(Len(exp_list) - 1) : x \notin Captured}
      Nth(k) == CHOOSE x \in kept : Cardinality({y \in kept : y < x}) = k - 1
  IN  [k \in 1..Cardinality(kept) |->
         [exp_list[Nth(k) + 1] EXCEPT !.ins = RenumberInputs(@)]]

\* the inner socket a group hands out for the output socket of event g
InnerLink(g) ==
  LET node == NodeOf[trace[g].socket[1]]
      output_node == GroupOutputOf(node.node_tree)[1]
      matching == SelectSeq(output_node.inputs,
                            LAMBDA input :
                              input.identifier = SocketOf(trace[g].socket).identifier)
  IN  matching[Len(matching)].links

\* the captures of event g's group that its output is wired straight to: a
\* linked outer input whose upstream output has the type of the group output
PassThroughCaptures(g) ==
  {c \in TraceIdx :
     /\ trace[g].ev = "group_return"
     /\ Len(InnerLink(g)) > 0
     /\ NodeOf[InnerLink(g)[1][1]].type = "GROUP_INPUT"
     /\ trace[c].ev = "capture" /\ trace[c].scope = trace[g].scope /\ trace[c].flag
     /\ FieldOf(trace[c].field).identifier = SocketOf(InnerLink(g)[1]).identifier
     /\ SocketOf(FieldOf(trace[c].field).links[1]).type = SocketOf(trace[g].socket).type
     /\ FieldOf(trace[c].field).type = SocketOf(trace[g].socket).type}

GroupedRun == phase = "returned" /\ unique_materials = <<"Direct", "Grouped">>

\* C6: a pass-through group hands out the expression reference of the
\* upstream output its outer input is linked to, and the Expression List of
\* the grouped material is the one of the ungrouped material plus the
\* constants captured for the unlinked inputs of the group.
C6_GroupTransparent ==
  /\ \A g, c \in TraceIdx : c \in PassThroughCaptures(g) => trace[g].v = trace[c].v
  /\ GroupedRun =>
       /\ StripCaptured(returned[2].expressions[1]) = returned[1].expressions[1]
       /\ [i \in 1..Len(returned[2].children) |->
             [returned[2].children[i] EXCEPT !.e = Renumber(@)]] = returned[1].children

\* the grouped material compiled after the ungrouped one, with a constant
\* captured for the unlinked input and the pass-through output resolved
C6_Witness ==
  /\ GroupedRun
  /\ Captured # {}
  /\ \E g, c \in TraceIdx : c \in PassThroughCaptures(g) /\ trace[g].v.k = "exp"

\* C7: the k-th claim of a run returns k and writes row SIZE-1-k, and no two
\* claims of a run write the same row.
C7_RowsDistinct ==
  /\ \A i \in 1..Len(claims) :
       claims[i].k = i - 1 /\ claims[i].row = DATASMITH_TEXTURE_SIZE - 1 - (i - 1)
  /\ Cardinality({claims[i].row : i \in 1..Len(claims)}) = Len(claims)

\* C8: in one compile no ramp or curve node claims two rows.
C8_OneRowPerNode ==
  \A i, j \in TraceIdx :
    (trace[i].ev = "curve" /\ trace[j].ev = "curve" /\ i # j)
      => trace[i].socket # trace[j].socket

\* C9: while the materials compile the atlas is not written; when the run is
\* over it was written once if a row was claimed and not at all otherwise,
\* and the written image is in the registry.
C9_AtlasWrittenOnce ==
  /\ phase = "collecting" => curves_image.writes = 0
  /\ phase \in {"returned", "raised"} =>
       /\ curves_image.writes = (IF material_curves_count # 0 THEN 1 ELSE 0)
       /\ material_curves_count # 0 => TexHas(tex_dict, sanitize_name(BlenderCurvesImage))

\* C9: between two compiles of a run the row counter does not go down.
C9_CounterMonotone ==
  [][phase = "collecting" => material_curves_count' >= material_curves_count]_vars

\* C10: a structural assertion in one material does not end the run.
C10_AssertionContained == ~(phase = "raised" /\ err = "AssertionError")

\* a translator call for a socket of a node type without a translator
IsUnhandled(i) ==
  /\ trace[i].ev = "translate"
  /\ NodeOf[trace[i].socket[1]].type
       \notin StructuralTypes \cup ShaderTypes \cup RegisteredTypes

\* C11: resolving a socket of a node type that is neither structural, nor a
\* shader, nor registered logs an error, appends exactly one Scalar 0, returns
\* a reference to it and does not raise.
C11_UnhandledDegrades ==
  \A i \in TraceIdx :
    IsUnhandled(i) =>
      /\ ~trace[i].flag
      /\ trace[i].n1 = trace[i].n0 + 1
      /\ trace[i].n1 <= Len(last_exp_list)
      /\ last_exp_list[trace[i].n1].tag = "Scalar"
      /\ last_exp_list[trace[i].n1].val = <<0>>
      /\ trace[i].v = Exp(trace[i].n0, 0)
      /\ \E l \in 1..Len(log) :
           log[l] = <<"error", <<"Node %s:%s not handled",
                                 NodeOf[trace[i].socket[1]].type,
                                 SocketOf(trace[i].socket).name>>>>

\* a compile that met two sockets of an unhandled node and produced its record
C11_Witness ==
  /\ Cardinality({i \in TraceIdx : IsUnhandled(i)}) = 2
  /\ err = ""
  /\ phase = "collecting"
  /\ Len(material_nodes) > 0

\* the input edges of the Expression List that name no producer
LooseInputs ==
  {<<x, k>> \in (1..Len(last_exp_list)) \X (1..4) :
     /\ k <= Len(last_exp_list[x].ins)
     /\ last_exp_list[x].ins[k].e = -1}

\* C12: an input that resolves to None leaves no input edge in the emitted
\* expression: no expression has an input edge with producer index -1.
C12_NoLooseInput == LooseInputs = {}

\* an Add Shader that returned
IsAdd(i) == trace[i].ev = "add" /\ ~trace[i].flag

\* the operand dict carries an expression for the channel
Present(dict, name) == Truthy(DictGet(dict, name))

\* the channels of Add Shader event i that exactly one operand carries
OneSided(i) ==
  {name \in Keys(trace[i].a) \cup Keys(trace[i].b) :
     Present(trace[i].a, name) # Present(trace[i].b, name)}

\* the channels of Add Shader event i that both operands carry
TwoSided(i) ==
  {name \in Keys(trace[i].a) \cup Keys(trace[i].b) :
     Present(trace[i].a, name) /\ Present(trace[i].b, name)}

\* the expression of the operand that carries the channel
PresentExp(i, name) ==
  IF Present(trace[i].a, name) THEN DictGet(trace[i].a, name)
  ELSE DictGet(trace[i].b, name)

Additive == {"BaseColor", "EmissiveColor"}

\* the expression a reference points to
NodeAt(v) == last_exp_list[v.e + 1]

IsScalar(e, value) ==
  /\ e >= 0 /\ e < Len(last_exp_list)
  /\ last_exp_list[e + 1].tag = "Scalar"
  /\ last_exp_list[e + 1].val = <<value>>

\* the result channel combines the present expression with a constant
CombinedWithDefault(i, name, tag, default) ==
  /\ DictGet(trace[i].d, name).k = "exp"
  /\ DictGet(trace[i].d, name).e >= trace[i].n0
  /\ DictGet(trace[i].d, name).e < trace[i].n1
  /\ NodeAt(DictGet(trace[i].d, name)).tag = tag
  /\ Len(NodeAt(DictGet(trace[i].d, name)).ins) = (IF tag = "Add" THEN 2 ELSE 3)
  /\ NodeAt(DictGet(trace[i].d, name)).ins[1] = exp_input("0", PresentExp(i, name))
  /\ NodeAt(DictGet(trace[i].d, name)).ins[2].n = "1"
  /\ IsScalar(NodeAt(DictGet(trace[i].d, name)).ins[2].e, default)
  /\ tag = "LinearInterpolate" =>
       /\ NodeAt(DictGet(trace[i].d, name)).ins[3].n = "2"
       /\ IsScalar(NodeAt(DictGet(trace[i].d, name)).ins[3].e, 500000)

\* C13 as stated: every channel but Normal that only one operand of Add
\* Shader carries is combined with a synthesized default (1 for Opacity, 0
\* otherwise) by the channel's blend rule (Add for BaseColor and
\* EmissiveColor, 50% LinearInterpolate otherwise).
C13_OneSidedCombined ==
  \A i \in TraceIdx :
    IsAdd(i) =>
      \A name \in OneSided(i) \ {"Normal"} :
        CombinedWithDefault(i, name,
                            IF name \in Additive THEN "Add" ELSE "LinearInterpolate",
                            IF name = "Opacity" THEN 1000000 ELSE 0)

\* C13 amended: of the channels only one operand carries, Opacity alone is
\* combined (a 50% LinearInterpolate of the present expression and a constant
\* 1); every other channel but Normal is the present expression itself, and
\* Add Shader appends nothing else for the one-sided channels.
C13_OnlyOpacityCombined ==
  \A i \in TraceIdx :
    IsAdd(i) =>
      /\ \A name \in OneSided(i) \ {"Normal"} :
           IF name = "Opacity"
           THEN CombinedWithDefault(i, name, "LinearInterpolate", 1000000)
           ELSE DictGet(trace[i].d, name) = PresentExp(i, name)
      /\ trace[i].n1 - trace[i].n0
           = 3 * Cardinality(OneSided(i) \cap {"Opacity"})
               + Cardinality(TwoSided(i) \cap Additive)
               + 2 * Cardinality(TwoSided(i) \ Additive)

\* an Add Shader with Opacity on one side, another one-sided channel and a
\* channel on both sides
C13_Witness ==
  \E i \in TraceIdx :
    /\ IsAdd(i)
    /\ "Opacity" \in OneSided(i)
    /\ "Refraction" \in OneSided(i)
    /\ "Roughness" \in OneSided(i)
    /\ TwoSided(i) # {}
    /\ err = ""

\* Add Shader event i had two aggregates, exactly one of them with a Normal
\* channel, and every other channel of theirs carries an expression
OneNormal(i) ==
  /\ trace[i].ev = "add"
  /\ trace[i].v.k = "bsdf" /\ trace[i].w.k = "bsdf"
  /\ HasKey(trace[i].a, "Normal") # HasKey(trace[i].b, "Normal")
  /\ \A name \in (Keys(trace[i].a) \cup Keys(trace[i].b)) \ {"Normal"} :
       Present(trace[i].a, name) \/ Present(trace[i].b, name)

\* C14 as stated: Add Shader of two aggregates of which exactly one has a
\* Normal channel raises no assertion and returns an aggregate without Normal.
C14_NormalOmitted ==
  \A i \in TraceIdx :
    OneNormal(i) => ~trace[i].flag /\ ~HasKey(trace[i].d, "Normal")

\* C14 amended: such an Add Shader raises no assertion and returns an
\* aggregate whose Normal is the Normal of the operand that has one.
C14_NormalKept ==
  \A i \in TraceIdx :
    OneNormal(i) =>
      /\ ~trace[i].flag
      /\ HasKey(trace[i].d, "Normal")
      /\ DictGet(trace[i].d, "Normal")
           = (IF HasKey(trace[i].a, "Normal") THEN DictGet(trace[i].a, "Normal")
              ELSE DictGet(trace[i].b, "Normal"))

\* an Add Shader whose second operand alone has a Normal, taken from a
\* normal map
C14_Witness ==
  \E i \in TraceIdx :
    /\ OneNormal(i)
    /\ HasKey(trace[i].b, "Normal")
    /\ DictGet(trace[i].b, "Normal").k = "exp"
    /\ err = ""

\* a Mix Shader that returned
IsMix(i) == trace[i].ev = "mix"

\* a reference to a Scalar 1 that Mix Shader event i appended
SynthesizedOne(i, e) ==
  /\ e >= trace[i].n0 /\ e < trace[i].n1
  /\ IsScalar(e, 1000000)

\* input edge `in` of the blend carries the operand's channel, or a
\* synthesized 1 where the operand has no Opacity
OperandEdge(i, in, key, dict, name) ==
  IF HasKey(dict, name) THEN in = exp_input(key, DictGet(dict, name))
  ELSE /\ name = "Opacity"
       /\ in.n = key /\ in.o = 0
       /\ SynthesizedOne(i, in.e)

\* the result channel is LinearInterpolate(first, second, mix factor)
BlendedByFac(i, name) ==
  /\ DictGet(trace[i].d, name).k = "exp"
  /\ DictGet(trace[i].d, name).o = 0
  /\ DictGet(trace[i].d, name).e >= trace[i].n0
  /\ DictGet(trace[i].d, name).e < trace[i].n1
  /\ NodeAt(DictGet(trace[i].d, name)).tag = "LinearInterpolate"
  /\ Len(NodeAt(DictGet(trace[i].d, name)).ins) = 3
  /\ OperandEdge(i, NodeAt(DictGet(trace[i].d, name)).ins[1], "0", trace[i].a, name)
  /\ OperandEdge(i, NodeAt(DictGet(trace[i].d, name)).ins[2], "1", trace[i].b, name)
  /\ NodeAt(DictGet(trace[i].d, name)).ins[3] = exp_input("2", trace[i].w)

\* C15: in Mix Shader, when exactly one operand carries Opacity a constant 1
\* is synthesized for the other and Opacity is LinearInterpolate(first
\* Opacity, second Opacity, mix factor); every other channel both operands
\* carry is a LinearInterpolate by the mix factor, and a channel of one
\* operand only is that operand's expression.
C15_MixBlend ==
  \A i \in TraceIdx :
    IsMix(i) =>
      /\ Keys(trace[i].d) = Keys(trace[i].a) \cup Keys(trace[i].b)
      /\ \A name \in Keys(trace[i].d) :
           IF (HasKey(trace[i].a, name) /\ HasKey(trace[i].b, name)) \/ name = "Opacity"
           THEN BlendedByFac(i, name)
           ELSE DictGet(trace[i].d, name)
                  = (IF HasKey(trace[i].a, name) THEN DictGet(trace[i].a, name)
                     ELSE DictGet(trace[i].b, name))

\* a Mix Shader with Opacity on the first side only, a channel on both sides
\* and another on the second side only
C15_Witness ==
  /\ err = ""
  /\ \E i \in TraceIdx :
       /\ IsMix(i)
       /\ HasKey(trace[i].a, "Opacity") /\ ~HasKey(trace[i].b, "Opacity")
       /\ \E name \in Keys(trace[i].b) \ {"Opacity"} : ~HasKey(trace[i].a, name)
       /\ \E name \in Keys(trace[i].b) \ {"Opacity"} : HasKey(trace[i].a, name)
       /\ trace[i].w.k = "exp"

\* the shader table built the aggregate of a node of the type
IsBsdf(i, type) == trace[i].ev = "bsdf" /\ NodeOf[trace[i].socket[1]].type = type

\* the input is linked or its default is not 1
LinkedOrNotOne(field) ==
  Len(FieldOf(field).links) # 0 \/ FieldOf(field).default_value[1] # F(1000)

\* ref is what the compile resolved the input field of the node of event i to
ResolvedTo(i, field, v) ==
  IF Len(FieldOf(field).links) # 0
  THEN \E g \in 1..(i - 1) :
         /\ IsGet(g) /\ trace[g].field = field /\ trace[g].scope = trace[i].scope
         /\ trace[g].v = v
  ELSE IF FieldOf(field).type = "RGBA"
  THEN \E g \in 1..(i - 1) :
         /\ trace[g].ev = "default" /\ trace[g].field = field
         /\ trace[g].scope = trace[i].scope
         /\ trace[g].v = v
  ELSE /\ v.k = "exp" /\ v.o = 0
       /\ v.e >= trace[i].n0 /\ v.e < trace[i].n1
       /\ IsScalar(v.e, Fmt6(FieldOf(field).default_value[1]))

\* the Multiply that event i appended for EmissiveColor
EmissionNode(i) == NodeAt(DictGet(trace[i].d, "EmissiveColor"))

\* EmissiveColor of event i is a Multiply of the two inputs that it appended
EmissionMultiplied(i, color, strength) ==
  /\ DictGet(trace[i].d, "EmissiveColor").k = "exp"
  /\ DictGet(trace[i].d, "EmissiveColor").o = 0
  /\ DictGet(trace[i].d, "EmissiveColor").e >= trace[i].n0
  /\ DictGet(trace[i].d, "EmissiveColor").e < trace[i].n1
  /\ EmissionNode(i).tag = "Multiply"
  /\ Len(EmissionNode(i).ins) = 2
  /\ \E c, s \in {Exp(e, 0) : e \in 0..(trace[i].n1 - 1)} :
       /\ EmissionNode(i).ins[1] = exp_input("0", c)
       /\ EmissionNode(i).ins[2] = exp_input("1", s)
       /\ ResolvedTo(i, color, c)
       /\ ResolvedTo(i, strength, s)

\* EmissiveColor of event i is the colour input itself, and the event
\* appended no Multiply of it
EmissionPlain(i, color) ==
  /\ ResolvedTo(i, color, DictGet(trace[i].d, "EmissiveColor"))
  /\ \A x \in (trace[i].n0 + 1)..trace[i].n1 :
       ~(/\ last_exp_list[x].tag = "Multiply"
         /\ Len(last_exp_list[x].ins) > 0
         /\ last_exp_list[x].ins[1]
              = exp_input("0", DictGet(trace[i].d, "EmissiveColor")))

\* the emission of event i follows the rule "multiply only when Strength is
\* linked or not 1"
EmissionByStrength(i, color, strength) ==
  IF LinkedOrNotOne(strength) THEN EmissionMultiplied(i, color, strength)
  ELSE EmissionPlain(i, color)

\* the emission colour input of the Principled BSDF
EmissionField(node_id) ==
  <<node_id, FirstInput(NodeOf[node_id], "Emission Color", "Emission")>>

\* C16 as stated: the aggregate of an Emission node has a Multiply of Color by
\* Strength only when Strength is linked or its default is not 1; otherwise
\* EmissiveColor is the Color expression and no Multiply is emitted.
C16_EmissionByStrength ==
  \A i \in TraceIdx :
    IsBsdf(i, "EMISSION") =>
      EmissionByStrength(i, <<trace[i].socket[1], "Color">>,
                         <<trace[i].socket[1], "Strength">>)

\* C16 amended: the aggregate of an Emission node always has a Multiply of
\* Color by Strength, also when Strength is an unlinked 1; it is the
\* Principled BSDF that multiplies its emission colour by Emission Strength
\* only when Emission Strength is linked or not 1.
C16_EmissionAlwaysMultiplied ==
  \A i \in TraceIdx :
    /\ IsBsdf(i, "EMISSION") =>
         EmissionMultiplied(i, <<trace[i].socket[1], "Color">>,
                            <<trace[i].socket[1], "Strength">>)
    /\ IsBsdf(i, "BSDF_PRINCIPLED") =>
         EmissionByStrength(i, EmissionField(trace[i].socket[1]),
                            <<trace[i].socket[1], "Emission Strength">>)

\* an Emission node with an unlinked Strength of 1 whose aggregate was built
C16_Witness ==
  /\ err = ""
  /\ \E i \in TraceIdx :
       /\ IsBsdf(i, "EMISSION")
       /\ ~LinkedOrNotOne(<<trace[i].socket[1], "Strength">>)
       /\ Len(FieldOf(<<trace[i].socket[1], "Color">>).links) # 0

\* get_expression event i resolved a Scalar input linked to an output of the
\* type, and the output gave an expression
ScalarFrom(i, type) ==
  /\ IsGet(i) /\ ~trace[i].flag
  /\ FieldOf(trace[i].field).type = "VALUE"
  /\ SocketOf(trace[i].socket).type = type
  /\ Truthy(trace[i].w)

\* event i returned a reference to the expression it appended last, after
\* the upstream expression
ReturnsLast(i) ==
  /\ trace[i].n1 > trace[i].n0
  /\ trace[i].v = Exp(trace[i].n1 - 1, 0)
  /\ trace[i].w.k = "exp" => trace[i].w.e < trace[i].n1 - 1

\* event i returned DotProduct(upstream, (0.333333, 0.333333, 0.333333))
ReturnsDotProduct(i) ==
  /\ ReturnsLast(i)
  /\ trace[i].n1 >= trace[i].n0 + 2
  /\ last_exp_list[trace[i].n1].tag = "DotProduct"
  /\ last_exp_list[trace[i].n1].ins
       = <<exp_input("0", trace[i].w), [n |-> "1", e |-> trace[i].n1 - 2, o |-> 0]>>
  /\ last_exp_list[trace[i].n1 - 1].tag = "Color"
  /\ last_exp_list[trace[i].n1 - 1].val = <<333333, 333333, 333333>>

\* event i returned the RGB_To_BW function call on the upstream expression
ReturnsRgbToBw(i) ==
  /\ ReturnsLast(i)
  /\ last_exp_list[trace[i].n1].tag = "FunctionCall"
  /\ last_exp_list[trace[i].n1].s = MAT_FUNC_RGB_TO_BW
  /\ last_exp_list[trace[i].n1].ins = <<exp_input("0", trace[i].w)>>

C17_WitnessVector == err = "" /\ \E i \in TraceIdx : ScalarFrom(i, "VECTOR")

IsDefault(i) ==
  /\ trace[i].ev = "default"
  /\ Len(FieldOf(trace[i].field).links) = 0

\* the top Context Frame when event i was resolved
TopContext(i) == IF trace[i].ctx = <<>> THEN "" ELSE trace[i].ctx[Len(trace[i].ctx)]

\* (2r-1, 2g-1, 2b-1, a) of the default of event i
RemappedDefault(i) ==
  <<2 * trace[i].a[1] - F(1000), 2 * trace[i].a[2] - F(1000),
    2 * trace[i].a[3] - F(1000), trace[i].a[4]>>

\* event i appended the Color constant with the components, six decimals each
EmitsColor(i, value) ==
  /\ trace[i].n1 = trace[i].n0 + 3
  /\ trace[i].v = Exp(trace[i].n1 - 1, 0)
  /\ last_exp_list[trace[i].n0 + 1].tag = "Color"
  /\ last_exp_list[trace[i].n0 + 1].val
       = <<Fmt6(value[1]), Fmt6(value[2]), Fmt6(value[3]), Fmt6(value[4])>>
  /\ last_exp_list[trace[i].n1].tag = "AppendVector"
  /\ last_exp_list[trace[i].n1].ins[1].e = trace[i].n0

\* C18: an unconnected Color input with default (r, g, b, a) resolved while
\* the top Context Frame is Normal emits the constant (2r-1, 2g-1, 2b-1, a);
\* under any other context (none, Bump) it emits (r, g, b, a).
C18_NormalDefaultRemapped ==
  \A i \in TraceIdx :
    IsDefault(i) =>
      IF TopContext(i) = MAT_CTX_NORMAL THEN EmitsColor(i, RemappedDefault(i))
      ELSE EmitsColor(i, trace[i].a)

\* the default (0.2, 0.2, 0.2, 1.0) resolved under the Normal context and
\* emitted as (-0.6, -0.6, -0.6, 1.0), next to a default resolved under none
C18_Witness ==
  /\ err = ""
  /\ \E i \in TraceIdx :
       /\ IsDefault(i)
       /\ TopContext(i) = MAT_CTX_NORMAL
       /\ trace[i].a = <<F(200), F(200), F(200), F(1000)>>
       /\ last_exp_list[trace[i].n0 + 1].val = <<-600000, -600000, -600000, 1000000>>
  /\ \E i \in TraceIdx : IsDefault(i) /\ TopContext(i) = ""

\* a Color default resolved under the Bump context
C18_WitnessBump ==
  /\ err = ""
  /\ \E i \in TraceIdx :
       /\ IsDefault(i)
       /\ TopContext(i) = MAT_CTX_BUMP
       /\ last_exp_list[trace[i].n0 + 1].val = <<200000, 200000, 200000, 1000000>>

\* the last compile ended and gave its Material Record
Compiled == phase \in {"collecting", "returned"} /\ err = "" /\ Len(material_nodes) > 0

\* the output of an image texture with an image was consumed at event i while
\* a Bump input was being resolved
TextureUnderBump(i) ==
  /\ trace[i].ev \in {"translate", "hit", "cached"}
  /\ NodeOf[trace[i].socket[1]].type = "TEX_IMAGE"
  /\ Len(NodeOf[trace[i].socket[1]].image) # 0
  /\ \E k \in 1..Len(trace[i].ctx) : trace[i].ctx[k] = MAT_CTX_BUMP
  /\ trace[i].v.k = "exp"

\* the texture was resolved before, outside the Bump context
ResolvedOutsideBump(i) ==
  \E h \in 1..(i - 1) :
    /\ trace[h].ev = "translate"
    /\ trace[h].socket[1] = trace[i].socket[1]
    /\ \A k \in 1..Len(trace[h].ctx) : trace[h].ctx[k] # MAT_CTX_BUMP

IsPassthrough(e) ==
  /\ e >= 0 /\ e < Len(last_exp_list)
  /\ last_exp_list[e + 1].tag = "FunctionCall"
  /\ last_exp_list[e + 1].s = MAT_FUNC_PASSTHROUGH

\* the producers of the input edges of expression e with the name
Producers(e, key) ==
  {last_exp_list[e + 1].ins[k].e :
     k \in {k \in 1..Len(last_exp_list[e + 1].ins) : last_exp_list[e + 1].ins[k].n = key}}

\* the Passthrough expressions chained from expression e through input 1
RECURSIVE PassthroughChain(_, _)
PassthroughChain(e, fuel) ==
  IF fuel = 0 \/ ~IsPassthrough(e) THEN {}
  ELSE {e} \cup UNION {PassthroughChain(next, fuel - 1) : next \in Producers(e, "1")}

\* the BaseColor slot of the last Material Record
BaseColorSlot ==
  {c.e : c \in {material_nodes[Len(material_nodes)].children[k] :
                  k \in {k \in 1..Len(material_nodes[Len(material_nodes)].children) :
                           material_nodes[Len(material_nodes)].children[k].n = "BaseColor"}}}

\* the textures that are input 0 of a Passthrough chained into BaseColor
ChainedTextures ==
  UNION {Producers(p, "0") :
           p \in UNION {PassthroughChain(e, Len(last_exp_list)) \ {e} : e \in BaseColorSlot}}

\* C19: every image texture consumed while a Bump input is resolved is, at
\* the end of the compile, on the whitelist and input 0 of a Passthrough
\* chained into BaseColor, also when it was resolved earlier outside Bump.
C19_BumpTextureWhitelisted ==
  Compiled =>
    \A i \in TraceIdx :
      TextureUnderBump(i) =>
        /\ \E k \in 1..Len(whitelisted_textures) :
             whitelisted_textures[k] = Exp(trace[i].v.e, 0)
        /\ trace[i].v.e \in ChainedTextures

\* C19 for the textures that the Bump input is the first to resolve
C19_FirstUnderBump ==
  Compiled =>
    \A i \in TraceIdx :
      TextureUnderBump(i) /\ ~ResolvedOutsideBump(i) =>
        /\ \E k \in 1..Len(whitelisted_textures) :
             whitelisted_textures[k] = Exp(trace[i].v.e, 0)
        /\ trace[i].v.e \in ChainedTextures

\* a compile whose Bump input consumed a texture resolved only there
C19_WitnessFirst ==
  Compiled /\ \E i \in TraceIdx : TextureUnderBump(i) /\ ~ResolvedOutsideBump(i)

\* a compile whose Bump input consumed a texture resolved before for
\* Base Color
C19_WitnessShared ==
  Compiled /\ \E i \in TraceIdx : TextureUnderBump(i) /\ ResolvedOutsideBump(i)

\* a node-tree compile started to resolve its graph
IsBegin(i) == trace[i].ev = "begin"

\* C20: at the start of every node-tree compile of a run, also of one that
\* follows an aborted compile, the Expression List, the node cache, the
\* reverse-expression cache, the context stack and the group scope are empty.
C20_FreshPerMaterial ==
  \A i \in TraceIdx :
    IsBegin(i) =>
      /\ trace[i].n0 = 0
      /\ trace[i].a = {}
      /\ trace[i].b = {}
      /\ trace[i].ctx = <<>>
      /\ trace[i].d = {}

\* C20 for the Expression List and the node cache alone
C20_ListAndNodeCacheFresh ==
  \A i \in TraceIdx : IsBegin(i) => trace[i].n0 = 0 /\ trace[i].a = {}

\* a compile that started with a Context Frame of an aborted compile
C20_LeakedContext == \E i \in TraceIdx : IsBegin(i) /\ trace[i].ctx # <<>>

\* a compile that started with the group scope of an aborted compile
C20_LeakedGroupScope == \E i \in TraceIdx : IsBegin(i) /\ trace[i].d # {}

\* a compile that started with the reverse-expression cache of the compile
\* before
C20_LeakedReverse == \E i \in TraceIdx : IsBegin(i) /\ trace[i].b # {}

(***************************************************************************)
(* C21.  A "cached" event is a get_expression_inner that found its node in *)
(* cached_nodes: a holds the output-name tuple the node recorded.          *)
(***************************************************************************)
IsCached(j) == trace[j].ev = "cached"

\* the translation that recorded the node of event j, in the same scope
RecordedBy(i, j) ==
  /\ i < j
  /\ trace[i].ev = "translate"
  /\ trace[i].socket[1] = trace[j].socket[1]
  /\ trace[i].scope = trace[j].scope

\* the name the cache looks up for the requested output
LookedUp(j) ==
  IF trace[j].socket[2] = "Factor" /\ \E p \in 1..Len(trace[j].a) : trace[j].a[p] = "Fac"
  THEN "Fac"
  ELSE trace[j].socket[2]

\* C21: once a multi-output node has recorded itself in the node cache, a
\* request for another of its outputs in the same scope appends nothing and
\* returns the recorded expression index with OutputIndex equal to the
\* position of the output's name in the recorded tuple ("Factor" taking the
\* slot of "Fac")
C21_CachedOutputSlot ==
  \A j \in TraceIdx :
    IsCached(j) =>
      /\ ~trace[j].flag
      /\ trace[j].n1 = trace[j].n0
      /\ \E i \in TraceIdx :
           /\ RecordedBy(i, j)
           /\ trace[i].v.k = "exp"
           /\ trace[j].v = Exp(trace[i].v.e, trace[j].v.o)
           /\ trace[i].socket # trace[j].socket
      /\ \E p \in 1..Len(trace[j].a) :
           trace[j].a[p] = LookedUp(j) /\ trace[j].v.o = p - 1

\* a compile in which the Factor output of a checker texture was answered
\* from the cache with slot 1, the Color output having recorded the node
C21_Witness ==
  \E j \in TraceIdx :
    /\ IsCached(j)
    /\ trace[j].socket = <<"checker.tex", "Factor">>
    /\ trace[j].v.o = 1
    /\ trace[j].a = <<"Color", "Fac">>

\* a compile in which the X output of a Separate XYZ node was answered from
\* the cache after its Z output
C21_WitnessSeparate ==
  \E j \in TraceIdx :
    /\ IsCached(j)
    /\ trace[j].socket = <<"sepxyz.sep", "X">>
    /\ trace[j].v.o = 0
    /\ \E i \in TraceIdx : RecordedBy(i, j) /\ trace[i].v.o = 2

(***************************************************************************)
(* C22.  log is the log of the last compile, one <<level, message>> per    *)
(* line written.                                                           *)
(***************************************************************************)
\* the warnings of translators that are known approximations
PartialFeatureWarns ==
  {<<"BSDF_TRANSPARENT incomplete implementation">>,
   <<"'Add Shader' is only an approximation, as Unreal's deferred rendering doesn't support this workflow.">>,
   <<"'Mix Shader' is only an approximation, as Unreal's deferred rendering doesn't support this workflow.">>,
   <<"Unsupported material node: AMBIENT_OCCLUSION, exporting plain color instead">>,
   <<"Unsupported material node: AMBIENT_OCCLUSION, exporting 1.0 value instead">>}

WarnedTimes(message) ==
  Cardinality({i \in 1..Len(log) : log[i] = <<"warn", message>>})

\* C22: within one material compile each distinct known-approximation
\* warning is written to the log at most once, however many nodes trigger it
C22_WarnedOnce ==
  \A message \in PartialFeatureWarns : WarnedTimes(message) <= 1

\* the warnings the translators report with once=True are written once
C22_OnceWarnedOnce ==
  \A message \in PartialFeatureWarns :
    message[1] \notin {"Unsupported material node: AMBIENT_OCCLUSION, exporting plain color instead",
                       "Unsupported material node: AMBIENT_OCCLUSION, exporting 1.0 value instead"}
      => WarnedTimes(message) <= 1

\* a compile that met two Add Shaders and two Transparent BSDFs and warned
\* once of each
C22_WitnessDedup ==
  /\ Cardinality({i \in TraceIdx : trace[i].ev = "add"}) = 2
  /\ WarnedTimes(<<"'Add Shader' is only an approximation, as Unreal's deferred rendering doesn't support this workflow.">>) = 1
  /\ WarnedTimes(<<"BSDF_TRANSPARENT incomplete implementation">>) = 1
  /\ err = ""

(***************************************************************************)
(* C23.  An "unlinked" event is a get_expression on an input without a     *)
(* link or linked to a disabled output: a is the default value, flag the   *)
(* force_default argument, d the aggregate returned (if one was).          *)
(***************************************************************************)
IsUnlinked(i) == trace[i].ev = "unlinked"

\* value (a count of 1e-6) is default (a count of 1e-7) to six decimals
SixDecimals(value, default) == 10 * value - default \in -5..5

\* the default of event i as the context in effect has it read
ContextDefault(i) ==
  IF TopContext(i) = MAT_CTX_NORMAL THEN RemappedDefault(i) ELSE trace[i].a

\* event i appended one constant of the tag with n components of the
\* default and returned it
OneConstant(i, tag, n) ==
  /\ trace[i].n1 = trace[i].n0 + 1
  /\ trace[i].v = Exp(trace[i].n0, 0)
  /\ NodeAt(trace[i].v).tag = tag
  /\ NodeAt(trace[i].v).ins = <<>>
  /\ Len(NodeAt(trace[i].v).val) = n
  /\ \A k \in 1..n : SixDecimals(NodeAt(trace[i].v).val[k], trace[i].a[k])

\* event i returned a colour built of the constant Color node of the default
ColorConstant(i) ==
  /\ trace[i].v.k = "exp"
  /\ trace[i].v.e = trace[i].n1 - 1
  /\ last_exp_list[trace[i].n0 + 1].tag = "Color"
  /\ \A k \in 1..4 :
       SixDecimals(last_exp_list[trace[i].n0 + 1].val[k], ContextDefault(i)[k])
  /\ \A e \in (trace[i].n0 + 1)..trace[i].n1 :
       \A k \in 1..Len(last_exp_list[e].ins) :
         last_exp_list[e].ins[k].e \in trace[i].n0..(e - 2)
  /\ \E k \in 1..Len(NodeAt(trace[i].v).ins) :
       NodeAt(trace[i].v).ins[k].e = trace[i].n0

\* event i returned the stub aggregate {BaseColor: 0, Roughness: 1}
StubAggregate(i) ==
  /\ trace[i].v.k = "bsdf"
  /\ Len(trace[i].d) = 2
  /\ trace[i].d[1].n = "BaseColor" /\ IsScalar(trace[i].d[1].v.e, 0)
  /\ trace[i].d[2].n = "Roughness" /\ IsScalar(trace[i].d[2].v.e, 1000000)
  /\ trace[i].n1 = trace[i].n0 + 2

\* C23: get_expression on an unconnected input returns, by socket type, one
\* Scalar constant of the default to six decimals (VALUE), a Color constant
\* (RGBA), a constant only when force_default is set or the default is a
\* Vector or Euler value and None otherwise (VECTOR), or the stub aggregate
\* {BaseColor: constant 0, Roughness: constant 1} (SHADER)
C23_DefaultByType ==
  \A i \in TraceIdx :
    IsUnlinked(i) =>
      CASE FieldOf(trace[i].field).type = "VALUE" -> OneConstant(i, "Scalar", 1)
        [] FieldOf(trace[i].field).type = "RGBA" -> ColorConstant(i)
        [] FieldOf(trace[i].field).type = "VECTOR" ->
             IF trace[i].flag \/ FieldOf(trace[i].field).default_type \in {"Vector", "Euler"}
             THEN OneConstant(i, "Color", 3)
             ELSE trace[i].v = NoneV /\ trace[i].n1 = trace[i].n0
        [] FieldOf(trace[i].field).type = "SHADER" -> StubAggregate(i)
        [] OTHER -> TRUE

\* a compile that resolved an unlinked Shader input to the stub and the
\* unlinked Scalar default 0.1234567 to the constant 0.123457
C23_Witness ==
  /\ \E i \in TraceIdx :
       /\ IsUnlinked(i)
       /\ trace[i].field = <<"stubmix.mix", "Shader">>
       /\ trace[i].v.k = "bsdf"
  /\ \E i \in TraceIdx :
       /\ IsUnlinked(i)
       /\ trace[i].field = <<"stubmix.mix", "Fac">>
       /\ NodeAt(trace[i].v).val = <<123457>>

\* unlinked Vector inputs: one with a Vector default, one resolved to None
C23_WitnessVector ==
  \E i, j \in TraceIdx :
    /\ IsUnlinked(i) /\ IsUnlinked(j)
    /\ FieldOf(trace[i].field).type = "VECTOR" /\ trace[i].v = NoneV
    /\ FieldOf(trace[j].field).type = "VECTOR" /\ trace[j].v.k = "exp"
    /\ FieldOf(trace[j].field).default_type = "Vector"

\* an unlinked Vector input without a Vector default, forced to a constant
C23_WitnessForced ==
  \E i \in TraceIdx :
    /\ IsUnlinked(i)
    /\ FieldOf(trace[i].field).type = "VECTOR" /\ trace[i].flag
    /\ FieldOf(trace[i].field).default_type = "bpy_prop_array"
    /\ trace[i].v.k = "exp"

\* inputs linked to a disabled output resolved to their defaults
C23_WitnessDisabled ==
  \E i \in TraceIdx :
    /\ IsUnlinked(i)
    /\ Len(FieldOf(trace[i].field).links) # 0
    /\ trace[i].v.k = "exp"

(***************************************************************************)
(* C24.  Under SpecSanitize, sanitized is sanitize_name(given_name) once   *)
(* phase is "sanitized".                                                   *)
(***************************************************************************)
Forbidden == {invalid_chars[i] : i \in 1..Len(invalid_chars)}

\* the name with each forbidden character replaced by "_"
Replaced(str) == [k \in 1..Len(str) |-> IF str[k] \in Forbidden THEN "_" ELSE str[k]]

\* C24: for a non-empty name, sanitize_name returns a string without
\* forbidden characters that is the name with each forbidden character
\* replaced by "_", a single "0" before it exactly when that string starts
\* with "_"; so it never starts with "_"
C24_Sanitized ==
  phase = "sanitized" =>
    /\ \A k \in 1..Len(sanitized) : sanitized[k] \notin Forbidden
    /\ sanitized = IF Replaced(given_name)[1] = "_"
                   THEN <<"0">> \o Replaced(given_name)
                   ELSE Replaced(given_name)
    /\ sanitized[1] # "_"

\* the name " a." sanitized to "0_a_"
C24_Witness ==
  /\ phase = "sanitized"
  /\ given_name = <<" ", "a", ".">>
  /\ sanitized = <<"0", "_", "a", "_">>

\* a name that starts with an underscore of its own, and one left as it is
C24_WitnessUnderscore ==
  /\ phase = "sanitized"
  /\ given_name = <<"_", "0">>
  /\ sanitized = <<"0", "_", "0">>

(***************************************************************************)
(* C25.  A "texture" event is a call of get_texture_name: a is the name of *)
(* the image, b the name returned, flag whether the registry already held  *)
(* that name, d the type hint and the registry before and after the call.  *)
(***************************************************************************)
IsTexture(i) == trace[i].ev = "texture"

\* what sanitize_name makes of a name
SanitizedOf(str) ==
  IF Replaced(str)[1] = "_" THEN <<"0">> \o Replaced(str) ELSE Replaced(str)

\* C25: get_texture_name returns the sanitized image name; a call on a name
\* the registry holds leaves the registry as it is (the first image and type
\* hint are kept), so the registry has at most one entry per sanitized name
\* and one image name always yields one returned name
C25_RegistryDedupes ==
  /\ \A i, j \in 1..Len(tex_dict) : tex_dict[i].name = tex_dict[j].name => i = j
  /\ \A i \in TraceIdx :
       IsTexture(i) =>
         /\ trace[i].b = SanitizedOf(trace[i].a)
         /\ trace[i].flag = (\E k \in 1..Len(trace[i].d.before) :
                               trace[i].d.before[k].name = trace[i].b)
         /\ IF trace[i].flag THEN trace[i].d.after = trace[i].d.before
            ELSE trace[i].d.after
                   = Append(trace[i].d.before,
                            [name |-> trace[i].b, image |-> trace[i].a,
                             type_hint |-> trace[i].d.type_hint])
         /\ \A j \in TraceIdx :
              IsTexture(j) /\ trace[j].a = trace[i].a => trace[j].b = trace[i].b

\* a compile that met two images of one sanitized name: the registry keeps
\* the first image, and the second call returned the same name
C25_Witness ==
  /\ Len(tex_dict) = 1
  /\ tex_dict[1].image = WoodCopyImage
  /\ \E i, j \in TraceIdx :
       /\ IsTexture(i) /\ IsTexture(j) /\ i < j
       /\ trace[i].a = WoodCopyImage /\ ~trace[i].flag
       /\ trace[j].a = WoodImage /\ trace[j].flag
       /\ trace[j].b = trace[i].b

\* a registry that held the image as a linear texture keeps that type hint
\* when a compile asks for the image as sRGB
C25_WitnessHint ==
  /\ Len(tex_dict) = 1
  /\ tex_dict[1].type_hint = "LINEAR"
  /\ \E i \in TraceIdx : IsTexture(i) /\ trace[i].flag /\ trace[i].d.type_hint = "SRGB"

(***************************************************************************)
(* C26.  The aggregate an Add Shader returns (d of its "add" event) holds  *)
(* its channels in the order the loop processed them; the expressions the  *)
(* loop appended are those from n0 up to n1.                               *)
(***************************************************************************)
\* the place of a channel name in the ascending order of the names
Rank(name) == CHOOSE k \in 1..Len(ChannelOrder) : ChannelOrder[k] = name

\* expression e of Add Shader event i combines the channel of both operands
Combines(i, name, e) ==
  /\ e >= trace[i].n0 /\ e < trace[i].n1
  /\ last_exp_list[e + 1].tag
       = (IF name \in Additive THEN "Add" ELSE "LinearInterpolate")
  /\ Len(last_exp_list[e + 1].ins) = (IF name \in Additive THEN 2 ELSE 3)
  /\ last_exp_list[e + 1].ins[1] = exp_input("0", DictGet(trace[i].a, name))
  /\ last_exp_list[e + 1].ins[2] = exp_input("1", DictGet(trace[i].b, name))
  /\ name \notin Additive =>
       /\ last_exp_list[e + 1].ins[3].n = "2"
       /\ IsScalar(last_exp_list[e + 1].ins[3].e, 500000)

\* the combining expressions Add Shader event i appended
Combining(i) ==
  {e \in trace[i].n0..(trace[i].n1 - 1) :
     last_exp_list[e + 1].tag \in {"Add", "LinearInterpolate"}}

\* C26: Shader-Add processes the channel names of the union of both
\* operands in ascending order and appends, for each channel both operands
\* carry, exactly one combining expression: Add(a, b) for BaseColor and
\* EmissiveColor, LinearInterpolate(a, b, constant 0.5) for every other
C26_AddCombines ==
  \A i \in TraceIdx :
    IsAdd(i) =>
      /\ {trace[i].d[k].n : k \in 1..Len(trace[i].d)}
           = Keys(trace[i].a) \cup Keys(trace[i].b)
      /\ \A k \in 1..(Len(trace[i].d) - 1) :
           Rank(trace[i].d[k].n) < Rank(trace[i].d[k + 1].n)
      /\ \A name \in TwoSided(i) :
           /\ DictGet(trace[i].d, name).k = "exp"
           /\ Combines(i, name, DictGet(trace[i].d, name).e)
      /\ \A name, other \in TwoSided(i) :
           Rank(name) < Rank(other)
             => DictGet(trace[i].d, name).e < DictGet(trace[i].d, other).e
      /\ Cardinality(Combining(i))
           = Cardinality(TwoSided(i)) + (IF "Opacity" \in OneSided(i) THEN 1 ELSE 0)

\* an Add Shader whose operands both carry BaseColor, Opacity and
\* Refraction: one Add and two LinearInterpolate, in that order
C26_Witness ==
  \E i \in TraceIdx :
    /\ IsAdd(i)
    /\ TwoSided(i) = {"BaseColor", "Opacity", "Refraction"}
    /\ NodeAt(DictGet(trace[i].d, "BaseColor")).tag = "Add"
    /\ NodeAt(DictGet(trace[i].d, "Opacity")).tag = "LinearInterpolate"
    /\ DictGet(trace[i].d, "BaseColor").e < DictGet(trace[i].d, "Opacity").e
    /\ DictGet(trace[i].d, "Opacity").e < DictGet(trace[i].d, "Refraction").e

(***************************************************************************)
(* C27.  The "curve" event of a claimed row holds in a the sampling of the *)
(* row: the divisor of the sample positions and the positions of the first *)
(* and the last sample, in units of 1e-6.                                  *)
(***************************************************************************)
\* C27: the samples of a claimed row are evenly spaced over the whole
\* parametrization: sample 0 is evaluated at position 0, the last sample
\* (index SIZE-1) at position 1, the range 0..1 divided into SIZE-1 parts.
C27_SamplesSpanRange ==
  \A i \in TraceIdx :
    trace[i].ev = "curve" =>
      /\ trace[i].a.first = 0
      /\ trace[i].a.last = 1000000
      /\ trace[i].a.factor = DATASMITH_TEXTURE_SIZE - 1

\* what the sampling loop does: sample idx is evaluated at idx / SIZE, so
\* the first sample is at 0 and the last one at (SIZE-1) / SIZE, short of 1
C27_SamplesStopShort ==
  \A i \in TraceIdx :
    trace[i].ev = "curve" =>
      /\ trace[i].a.first = 0
      /\ trace[i].a.last = ((DATASMITH_TEXTURE_SIZE - 1) * 1000000) \div DATASMITH_TEXTURE_SIZE
      /\ trace[i].a.last < 1000000
      /\ trace[i].a.factor = DATASMITH_TEXTURE_SIZE

\* a row was claimed and sampled
C27_WitnessSampled ==
  \E i \in TraceIdx : trace[i].ev = "curve" /\ trace[i].a.last > 0

(***************************************************************************)
(* C28.  The "operands" event of an Add Shader or Mix Shader holds the     *)
(* aggregates reverse_expressions maps the two operands' upstream outputs  *)
(* to: in a when both operands were resolved, in b when the node returned. *)
(***************************************************************************)
IsOperands(i) == trace[i].ev = "operands"

\* the node type of the shader node event i is about
CombinerOf(i) == NodeOf[trace[i].socket[1]].type

\* C28: resolving a Shader-Mix or Shader-Add node leaves the memoized
\* aggregates of its operands unchanged: the reverse-expression cache entry
\* of each operand's upstream shader output maps every channel to the
\* expression it had before the combination.
C28_OperandsUnchanged ==
  \A i \in TraceIdx : IsOperands(i) => trace[i].b = trace[i].a

\* what holds: Shader-Add leaves both entries as they were; Shader-Mix
\* leaves the second operand's entry as it was but for a synthesized
\* Opacity, and the first operand's entry becomes the mixed aggregate
C28_MixOverwritesFirst ==
  \A i \in TraceIdx :
    IsOperands(i) =>
      /\ CombinerOf(i) = "ADD_SHADER" => trace[i].b = trace[i].a
      /\ (CombinerOf(i) = "MIX_SHADER" /\ trace[i].a[1] # <<>>) =>
           /\ \E j \in TraceIdx :
                /\ IsMix(j) /\ trace[j].socket = trace[i].socket
                /\ trace[i].b[1] = trace[j].d
           /\ \A name \in Keys(trace[i].a[1]) \cap Keys(trace[i].a[2]) :
                DictGet(trace[i].b[1], name) # DictGet(trace[i].a[1], name)
           /\ \/ trace[i].d[1] = trace[i].d[2]
              \/ \A name \in Keys(trace[i].a[2]) :
                   DictGet(trace[i].b[2], name) = DictGet(trace[i].a[2], name)

\* a Diffuse BSDF consumed by a Mix Shader and then by an Add Shader: the
\* Add Shader receives from the cache the aggregate the Mix Shader returned
C28_WitnessSecondConsumer ==
  \E i, j \in TraceIdx :
    /\ IsOperands(i) /\ trace[i].socket = <<"mixshared.mix", "Shader">>
    /\ trace[i].b[1] # trace[i].a[1]
    /\ IsAdd(j) /\ trace[j].socket = <<"mixshared.add", "Shader">>
    /\ trace[j].b = trace[i].b[1]
    /\ trace[j].a = trace[j].b

(***************************************************************************)
(* C29.  The finished Material Records are material_nodes: the Expression  *)
(* List of record m is its Expressions child, its named slots the children *)
(* exp_output made from the channels of the aggregate.                     *)
(***************************************************************************)
\* the Expression List of record m (empty when it has no Expressions child)
ListOf(m) ==
  IF Len(material_nodes[m].expressions) = 0 THEN <<>>
  ELSE material_nodes[m].expressions[1]

\* the input edges of record m: <<index of the consumer, input, producer>>
EdgesOf(m) ==
  UNION {{<<j, ListOf(m)[j + 1].ins[k].n, ListOf(m)[j + 1].ins[k].e>> :
            k \in 1..Len(ListOf(m)[j + 1].ins)} : j \in 0..(Len(ListOf(m)) - 1)}

\* the producers the named slots of record m reference
SlotsOf(m) ==
  {material_nodes[m].children[k].e :
     k \in {k \in 1..Len(material_nodes[m].children) :
              \E c \in 1..Len(ChannelOrder) :
                material_nodes[m].children[k].n = ChannelOrder[c]}}

\* input 1 of a pass-through of the texture post-pass, linked after the
\* pass-through was appended
ChainEdge(m, edge) ==
  /\ ListOf(m)[edge[1] + 1].tag = "FunctionCall"
  /\ ListOf(m)[edge[1] + 1].s = MAT_FUNC_PASSTHROUGH
  /\ edge[2] = "1"

\* C29: in a finished Material Record every input edge held by the
\* expression at index j references a producer index i with 0 <= i < j, and
\* every named slot references an index i with 0 <= i < length of the
\* Expression List.
C29_EdgesPointBack ==
  \A m \in 1..Len(material_nodes) :
    /\ \A edge \in EdgesOf(m) : 0 <= edge[3] /\ edge[3] < edge[1]
    /\ \A i \in SlotsOf(m) : 0 <= i /\ i < Len(ListOf(m))

\* what holds: every producer index is below the length of the list; the
\* only edges that point forward are input 1 of the texture pass-throughs,
\* linked to the pass-through appended next; an input or a channel that
\* resolved to None is written with producer -1
C29_EdgesWithinList ==
  \A m \in 1..Len(material_nodes) :
    /\ \A edge \in EdgesOf(m) :
         /\ -1 <= edge[3] /\ edge[3] < Len(ListOf(m))
         /\ edge[3] >= edge[1] =>
              /\ ChainEdge(m, edge)
              /\ ListOf(m)[edge[3] + 1].tag = "FunctionCall"
              /\ ListOf(m)[edge[3] + 1].s = MAT_FUNC_PASSTHROUGH
    /\ \A i \in SlotsOf(m) : -1 <= i /\ i < Len(ListOf(m))

\* a finished record with two whitelisted textures: the first pass-through
\* holds an edge to the second, which was appended after it
C29_WitnessForward ==
  \E m \in 1..Len(material_nodes) :
    \E edge \in EdgesOf(m) : ChainEdge(m, edge) /\ edge[3] > edge[1]

(***************************************************************************)
(* C30.  A "group_return" event is one call of exp_group that returned:    *)
(* socket is the requested output of the group node, scope the scope the   *)
(* call entered and by the scope it was called from.  The "capture" and    *)
(* "translate" events of the call carry the scope it entered.              *)
(***************************************************************************)
\* calls i and j returned two different outputs of one group node instance
TwoOutputs(i, j) ==
  /\ trace[i].ev = "group_return" /\ trace[j].ev = "group_return"
  /\ i < j
  /\ trace[i].socket[1] = trace[j].socket[1]
  /\ trace[i].socket[2] # trace[j].socket[2]
  /\ trace[i].by = trace[j].by

\* the outer inputs call i captured
CapturesIn(i) ==
  {c \in TraceIdx : trace[c].ev = "capture" /\ trace[c].scope = trace[i].scope}

\* the inner output sockets call i translated
TranslatedIn(i) ==
  {trace[h].socket :
     h \in {h \in TraceIdx : trace[h].ev = "translate" /\ trace[h].scope = trace[i].scope}}

\* the expressions appended between the entry and the return of call i
AppendedIn(i) ==
  {e \in 0..(trace[i].n1 - 1) :
     \E h \in TraceIdx :
       /\ trace[h].ev \in {"capture", "translate"}
       /\ trace[h].scope = trace[i].scope
       /\ e >= trace[h].n0 /\ e < trace[h].n1}

\* C30: when two different output sockets of the same group node instance
\* are requested in one compile, the group's outer inputs are captured once
\* and every inner node reachable from both outputs is translated once, its
\* expressions appearing once in the Expression List.
C30_GroupResolvedOnce ==
  \A i, j \in TraceIdx :
    TwoOutputs(i, j) =>
      /\ CapturesIn(j) = {}
      /\ TranslatedIn(i) \cap TranslatedIn(j) = {}
      /\ \A e \in AppendedIn(i), x \in AppendedIn(j) :
           last_exp_list[e + 1] # last_exp_list[x + 1]

\* what holds: every requested output is a call of its own, which enters a
\* new scope, captures every outer input again and translates again what
\* the inner output it asks for reaches
C30_EachOutputOwnCall ==
  \A i, j \in TraceIdx :
    TwoOutputs(i, j) =>
      /\ trace[i].scope # trace[j].scope
      /\ Cardinality(CapturesIn(i)) = Len(NodeOf[trace[i].socket[1]].inputs)
      /\ Cardinality(CapturesIn(j)) = Len(NodeOf[trace[j].socket[1]].inputs)
      /\ \A c \in CapturesIn(j) : ~trace[c].flag => trace[c].n1 > trace[c].n0

\* both outputs of the group of material TwoOut were requested: the inner
\* RGB node was translated in both calls, and the expressions of the second
\* translation repeat, at later indices, those of the first
C30_WitnessTwice ==
  \E i, j, h, g \in TraceIdx :
    /\ TwoOutputs(i, j)
    /\ trace[h].ev = "translate" /\ trace[h].scope = trace[i].scope
    /\ trace[g].ev = "translate" /\ trace[g].scope = trace[j].scope
    /\ trace[h].socket = <<"t_two.rgb", "Color">>
    /\ trace[g].socket = <<"t_two.rgb", "Color">>
    /\ trace[h].n1 <= trace[g].n0
    /\ trace[h].n1 - trace[h].n0 = trace[g].n1 - trace[g].n0
    /\ last_exp_list[trace[h].n0 + 1] = last_exp_list[trace[g].n0 + 1]
    /\ trace[i].v.e # trace[j].v.e
    /\ CapturesIn(j) # {}
====
